---- MODULE Spec2Model ----
(***************************************************************************)
(* A model of dissect.fat: opening a FAT volume (boot sector validation    *)
(* and geometry), the FAT allocation table (get / chain / runlist), the    *)
(* FAT directory decoder and path lookup, and the exFAT extent builder.    *)
(*                                                                         *)
(* Number representation: Python integers are unbounded, the checker's are *)
(* 32-bit signed.  Every value handled by the FAT12/16/32 code is below    *)
(* 2^28 after masking, so those are plain naturals.  An exFAT table entry  *)
(* is a full 32-bit word and is held as <<low half, high half>>.           *)
(***************************************************************************)
EXTENDS Integers, Sequences, FiniteSets, TLC

VARIABLES
    bits_per_entry,   \* FAT.bits_per_entry (12, 16 or 32)
    fat_fh,           \* FAT.fh: the bytes of the table region
    stored,           \* the entry values that were packed into fat_fh
    pc,               \* position of the running FAT.runlist / FAT.chain call
    start,            \* the argument of the running call
    cluster,          \* FAT.chain: local variable cluster
    visited,          \* clusters whose entry FAT.chain has resolved, in order
    yielded,          \* clusters yielded by FAT.chain, in order
    run_start,        \* FAT.runlist: local variable run_start
    run_size,         \* FAT.runlist: local variable run_size
    runs,             \* pairs yielded by FAT.runlist, in order
    disk,             \* the directory streams of the image: root and per first cluster
    entries_,         \* DirectoryEntry._entries of the entry objects that have one set
    first_out,        \* per entry object, what its first completed iterdir() yielded
    last,             \* the last FATFS call made and what it gave
    vbr,              \* ExFAT.vbr: the geometry fields of the exFAT header
    fat,              \* ExFAT.fat: the bytes of the exFAT allocation table
    ex,               \* the last ExFAT call made and what it gave
    boot_sector,      \* the fields of the boot sector handed to FATFS
    fs,               \* what FATFS(fh) gave: the filesystem object or the exception
    lru,              \* the cache lru_cache keeps for FAT.get: (cluster, result), oldest first
    known,            \* the clusters FAT.get has returned a value for so far
    call,             \* the last call of the cached FAT.get and what it did
    header,           \* exFAT boot sector fields read by ExFAT.__init__ beside the geometry
    heap,             \* the exFAT volume's directory slots, by the block number a stream reads
    exfs,             \* what ExFAT(fh) gave: the filesystem object or the exception
    conv              \* the last conversion of a cluster to a sector and back

fatVars == <<bits_per_entry, fat_fh, stored, pc, start, cluster, visited,
             yielded, run_start, run_size, runs>>

dirVars == <<disk, entries_, first_out, last>>

exVars == <<vbr, fat, ex>>

bootVars == <<boot_sector, fs>>

cacheVars == <<lru, known, call>>

openVars == <<header, heap, exfs>>

convVars == <<conv>>

vars == <<fatVars, dirVars, exVars, bootVars, cacheVars, openVars, convVars>>

(***************************************************************************)
(* Bounds                                                                  *)
(***************************************************************************)
\* number of entries packed into a table
NumEntries == 4
\* loop iterations of FAT.chain followed in one call (a cycle never ends)
MaxSteps == 4

(***************************************************************************)
(* c_fat.py constants                                                      *)
(***************************************************************************)
DATA_CLUSTER_MIN == 2
\* 0x0FFFFFEF
DATA_CLUSTER_MAX == 268435439
\* 0x0FFFFFF8
END_OF_CLUSTER_MIN == 268435448
\* 0x0FFFFFFF
END_OF_CLUSTER_MAX == 268435455
\* 0xFF0
FAT12_EOC == 4080
\* 0x0FFFFFF7
BAD_CLUSTER == 268435447
FREE_CLUSTER == 0

Widths == {12, 16, 32}

----------------------------------------------------------------------------
(***************************************************************************)
(* Helpers on sequences                                                    *)
(***************************************************************************)
RECURSIVE Flatten(_)
Flatten(ss) == IF ss = <<>> THEN <<>> ELSE Head(ss) \o Flatten(Tail(ss))

\* offset, offset+1, ..., offset+length-1
Range(offset, length) == [i \in 1..length |-> offset + i - 1]

\* F applied to the value of v, which is computed once
With(v, F(_)) == CHOOSE r \in {F(x) : x \in {v}} : TRUE

----------------------------------------------------------------------------
(***************************************************************************)
(* The FAT table                                                           *)
(***************************************************************************)

\* mask(v, bits) = v & ((1 << bits) - 1).  Every v passed is below 2^28, so
\* for bits = 32 the mask leaves it unchanged (2^32 itself is not computed).
mask(v, bits) == IF bits < 31 THEN v % (2 ^ bits) ELSE v

\* struct.unpack("<H", b)
UnpackH(b) == b[1] + 256 * b[2]

\* struct.unpack("<I", b)[0] & 0x0FFFFFFF: the top four bits of the last
\* byte are dropped by the mask
UnpackI28(b) == b[1] + 256 * b[2] + 65536 * b[3] + 16777216 * (b[4] % 16)

\* fh.seek(off); fh.read(n): the bytes at 0-based offsets off .. off+n-1
\* (shorter at the end of the stream)
ReadAt(fh, off, n) ==
    SubSeq(fh, off + 1, IF off + n <= Len(fh) THEN off + n ELSE Len(fh))

\* FAT.__init__: entry_count = int(fh.size // (bits_per_entry / 8))
entry_count(fh, bits) == (Len(fh) * 8) \div bits

\* FAT.get for 12-bit entries
Get12SwappedNibble(fh, c) ==
    LET value == UnpackH(ReadAt(fh, c + (c \div 2), 2))
    IN IF c % 2 = 1 THEN value % 4096 ELSE value \div 16
Get12(fh, c) ==
    LET value == UnpackH(ReadAt(fh, c + (c \div 2), 2))
    IN IF c % 2 = 1 THEN value \div 16 ELSE value % 4096

\* FAT.get: [ok |-> TRUE, value |-> the entry of cluster c], or ok = FALSE
\* when ValueError ("Cluster exceeds FAT entry count") is raised
FAT_get(fh, bits, c) ==
    IF c >= entry_count(fh, bits) THEN [ok |-> FALSE, value |-> 0]
    ELSE IF bits = 12 THEN [ok |-> TRUE, value |-> Get12(fh, c)]
    ELSE IF bits = 16 THEN [ok |-> TRUE, value |-> UnpackH(ReadAt(fh, c * 2, 2))]
    ELSE [ok |-> TRUE, value |-> UnpackI28(ReadAt(fh, c * 4, 4))]

\* One iteration of the while loop of FAT.chain without its test for a free
\* entry: the walk goes on to cluster 0
ChainIterFreeFollowed(fh, bits, cl) ==
    LET g == FAT_get(fh, bits, cl)
        value == g.value
        data == IF DATA_CLUSTER_MIN <= value /\ value <= mask(DATA_CLUSTER_MAX, bits)
                THEN <<cl>> ELSE <<>>
    IN IF ~g.ok THEN [to |-> "ValueError", yields |-> <<>>, value |-> 0]
       ELSE IF bits = 12 /\ value = FAT12_EOC
            THEN [to |-> "done", yields |-> data \o <<cl>>, value |-> value]
       ELSE IF mask(END_OF_CLUSTER_MIN, bits) <= value
               /\ value <= mask(END_OF_CLUSTER_MAX, bits)
            THEN [to |-> "done", yields |-> data \o <<cl>>, value |-> value]
       ELSE IF value = mask(BAD_CLUSTER, bits)
            THEN [to |-> "BadClusterError", yields |-> data, value |-> value]
       ELSE [to |-> "run", yields |-> data, value |-> value]

\* One iteration of the while loop of FAT.chain at cluster cl:
\*   to     - "run" (cluster = value), "done" (break), or the error raised
\*   yields - the clusters yielded during the iteration, in order
\*   value  - the resolved entry
ChainIter(fh, bits, cl) ==
    LET g == FAT_get(fh, bits, cl)
        value == g.value
        data == IF DATA_CLUSTER_MIN <= value /\ value <= mask(DATA_CLUSTER_MAX, bits)
                THEN <<cl>> ELSE <<>>
    IN IF ~g.ok THEN [to |-> "ValueError", yields |-> <<>>, value |-> 0]
       ELSE IF bits = 12 /\ value = FAT12_EOC
            THEN [to |-> "done", yields |-> data \o <<cl>>, value |-> value]
       ELSE IF mask(END_OF_CLUSTER_MIN, bits) <= value
               /\ value <= mask(END_OF_CLUSTER_MAX, bits)
            THEN [to |-> "done", yields |-> data \o <<cl>>, value |-> value]
       ELSE IF value = mask(BAD_CLUSTER, bits)
            THEN [to |-> "BadClusterError", yields |-> data, value |-> value]
       ELSE IF value = FREE_CLUSTER
            THEN [to |-> "FreeClusterError", yields |-> data, value |-> value]
       ELSE [to |-> "run", yields |-> data, value |-> value]

\* FAT.runlist: the loop body for one cluster cl taken from the chain.
\* r = [run_start, run_size, runs]; run_size = 0 before the first next(chain).
RunlistTake(r, cl) ==
    IF r.run_size = 0
    THEN [run_start |-> cl - 2, run_size |-> 1, runs |-> r.runs]
    ELSE IF cl = r.run_start + r.run_size
    THEN [run_start |-> r.run_start, run_size |-> r.run_size + 1, runs |-> r.runs]
    ELSE [run_start |-> cl - 2, run_size |-> 1,
          runs |-> Append(r.runs, <<r.run_start, r.run_size>>)]

RECURSIVE RunlistTakeAll(_, _)
RunlistTakeAll(r, cls) ==
    IF cls = <<>> THEN r ELSE RunlistTakeAll(RunlistTake(r, Head(cls)), Tail(cls))

\* FAT.runlist: the else clause of the for loop, run when the chain is exhausted
RunlistFinish(r) ==
    [run_start |-> r.run_start, run_size |-> r.run_size,
     runs |-> Append(r.runs, <<r.run_start, r.run_size>>)]

----------------------------------------------------------------------------
(***************************************************************************)
(* The FAT directory decoder.  A slot is one 32-byte directory record,     *)
(* read both as a Dirent and as an Ldirent:                                *)
(*   name  - DIR_Name, 11 bytes; name[1] is also LDIR_Ord                  *)
(*   attr  - DIR_Attr, which is also LDIR_Attr                             *)
(*   units - LDIR_Name1 + LDIR_Name2 + LDIR_Name3 as 13 UTF-16 code units  *)
(*   clus  - (DIR_FstClusHI << 16) | DIR_FstClusLO                         *)
(***************************************************************************)
ATTR_READ_ONLY == 1
ATTR_HIDDEN == 2
ATTR_SYSTEM == 4
ATTR_VOLUME_ID == 8
ATTR_DIRECTORY == 16
ATTR_ARCHIVE == 32
ATTR_LONG_NAME == ATTR_READ_ONLY + ATTR_HIDDEN + ATTR_SYSTEM + ATTR_VOLUME_ID
ATTR_LONG_NAME_MASK == ATTR_LONG_NAME + ATTR_DIRECTORY + ATTR_ARCHIVE
LAST_LONG_ENTRY == 64

\* a & m for a mask m = 2^k - 1, and the test of the single bit b = 2^k
AndLow(a, m) == a % (m + 1)
HasBit(a, b) == (a \div b) % 2 = 1

\* bytes.decode("ibm437") for the bytes the images hold: ASCII maps to
\* itself, 0xE5 to U+03C3, 0xFF to U+00A0
Cp437(b) == IF b = 229 THEN 963 ELSE IF b = 255 THEN 160 ELSE b
DecodeCp437(bs) == [i \in 1..Len(bs) |-> Cp437(bs[i])]

\* str.upper() on those characters
UpperChar(c) == IF 97 <= c /\ c <= 122 THEN c - 32 ELSE IF c = 963 THEN 931 ELSE c
Upper(str) == [i \in 1..Len(str) |-> UpperChar(str[i])]

\* the characters str.rstrip() removes
Whitespace == {9, 10, 11, 12, 13, 28, 29, 30, 31, 32, 133, 160}

RECURSIVE RStrip(_, _)
RStrip(str, chars) ==
    IF str # <<>> /\ str[Len(str)] \in chars
    THEN RStrip(SubSeq(str, 1, Len(str) - 1), chars) ELSE str

\* c_fat.wchar[None](data + b"\x00\x00"): the code units before the first null
RECURSIVE CutNull(_)
CutNull(us) ==
    IF us = <<>> \/ Head(us) = 0 THEN <<>> ELSE <<Head(us)>> \o CutNull(Tail(us))

\* the sort key of DirectoryEntry.__init__: e.LDIR_Ord & 0x3F
SortKeyRaw(e) == e.name[1]
SortKey(e) == AndLow(e.name[1], 63)

\* list.sort(key=...): a stable sort
RECURSIVE InsertSorted(_, _)
InsertSorted(sorted, e) ==
    IF sorted = <<>> THEN <<e>>
    ELSE IF SortKey(e) < SortKey(Head(sorted)) THEN <<e>> \o sorted
    ELSE <<Head(sorted)>> \o InsertSorted(Tail(sorted), e)
RECURSIVE SortLdirents(_)
SortLdirents(es) ==
    IF es = <<>> THEN <<>>
    ELSE InsertSorted(SortLdirents(SubSeq(es, 1, Len(es) - 1)), es[Len(es)])

\* name_reduce: the fragments of the (sorted) ldirents concatenated
NameReduce(es) == Flatten([i \in 1..Len(es) |-> es[i].units])

\* DirectoryEntry.__init__, the short name: 0x05 unescaped to 0xE5, base and
\* extension decoded and stripped, joined with "."
ShortName(dir_name) ==
    LET dn == [i \in 1..Len(dir_name) |->
                 IF i = 1 /\ dir_name[1] = 5 THEN 229 ELSE dir_name[i]]
        base == RStrip(RStrip(DecodeCp437(SubSeq(dn, 1, 8)), {0}), Whitespace)
        ext == RStrip(RStrip(DecodeCp437(SubSeq(dn, 9, 11)), {0}), Whitespace)
    IN IF ext # <<>> THEN base \o <<46>> \o ext ELSE base

\* DirectoryEntry.__init__, the while loop over continuation slots.  p is the
\* 0-based index of the slot held in buf; ld the ldirents so far.
RECURSIVE LongLoop(_, _, _, _)
LongLoop(stream, p, ld, found_last) ==
    LET cur == stream[p + 1]
        isLast == HasBit(cur.name[1], LAST_LONG_ENTRY)
    IN IF cur.attr = ATTR_LONG_NAME
       THEN IF isLast /\ found_last
            THEN [kind |-> "InvalidDirectoryError", p |-> p, ld |-> Append(ld, cur)]
            ELSE IF p + 1 >= Len(stream)
            THEN [kind |-> "EOFError", p |-> p, ld |-> Append(ld, cur)]
            ELSE LongLoop(stream, p + 1, Append(ld, cur), found_last \/ isLast)
       ELSE [kind |-> "ok", p |-> p, ld |-> ld]

NoEntry ==
    [at |-> 0, nl |-> 0, ldirents |-> <<>>, lname |-> <<>>, name |-> <<>>,
     short_name |-> <<>>, attr |-> 0, cluster |-> 0, upto |-> 0]

\* the DirectoryEntry built from the 8.3 slot at 0-based index p
MakeEntry(stream, p, ld, lname) ==
    LET d == stream[p + 1]
        sn == ShortName(d.name)
    IN [at |-> p + 1, nl |-> Len(ld), ldirents |-> ld, lname |-> lname,
        name |-> IF lname # <<>> THEN lname ELSE sn,
        short_name |-> sn, attr |-> d.attr, cluster |-> d.clus, upto |-> 0]

\* DirectoryEntry(fs, fh, parent) with fh at slot p (0-based):
\*   kind  - "entry", or the exception raised
\*   pos   - the position of fh afterwards
\*   entry - the entry built
DirectoryEntry(stream, p) ==
    IF p >= Len(stream) THEN [kind |-> "EOFError", pos |-> p, entry |-> NoEntry]
    ELSE LET dirent == stream[p + 1]
         IN IF dirent.name[1] = 229
            THEN [kind |-> "EmptyDirectoryError", pos |-> p + 1, entry |-> NoEntry]
            ELSE IF dirent.name[1] = 0
            THEN [kind |-> "LastEmptyDirectoryError", pos |-> p + 1, entry |-> NoEntry]
            ELSE IF AndLow(dirent.attr, ATTR_LONG_NAME_MASK) = ATTR_LONG_NAME
            THEN LET l == LongLoop(stream, p, <<>>, FALSE)
                     ld == SortLdirents(l.ld)
                 IN IF l.kind # "ok"
                    THEN [kind |-> l.kind, pos |-> l.p + 1, entry |-> NoEntry]
                    ELSE IF ld = <<>>
                    \* reduce() of an empty sequence with no initial value
                    THEN [kind |-> "TypeError", pos |-> l.p + 1, entry |-> NoEntry]
                    ELSE [kind |-> "entry", pos |-> l.p + 1,
                          entry |-> MakeEntry(stream, l.p, ld, CutNull(NameReduce(ld)))]
            ELSE [kind |-> "entry", pos |-> p + 1,
                  entry |-> MakeEntry(stream, p, <<>>, <<>>)]

\* _iter_dirent consumed to its end from slot p: the entries yielded (each
\* with upto = the number of slots read when it was yielded), the exception
\* that escaped ("" when none) and the number of slots read
RECURSIVE IterDirentFrom(_, _, _)
IterDirentFrom(stream, p, acc) ==
    LET r == DirectoryEntry(stream, p)
    IN CASE r.kind = "entry" ->
              IterDirentFrom(stream, r.pos, Append(acc, [r.entry EXCEPT !.upto = r.pos]))
         [] r.kind = "EmptyDirectoryError" -> IterDirentFrom(stream, r.pos, acc)
         [] r.kind \in {"LastEmptyDirectoryError", "EOFError"} ->
              [entries |-> acc, err |-> "", reads |-> r.pos]
         [] OTHER -> [entries |-> acc, err |-> r.kind, reads |-> r.pos]
_iter_dirent(stream) == IterDirentFrom(stream, 0, <<>>)

----------------------------------------------------------------------------
(***************************************************************************)
(* The table image: NumEntries entries of the active width, laid out as    *)
(* the on-disk format lays them out.                                       *)
(***************************************************************************)

\* entry values worth distinguishing for each width: free, reserved (1),
\* every cluster of the table, the first cluster past the table, bad,
\* end-of-chain; for FAT12 the alternate end-of-chain 0xFF0; for FAT32 an
\* entry 2 with a bit set in the ignored top nibble (0x10000002)
EntryValues(bits) ==
    (0..NumEntries) \cup {mask(BAD_CLUSTER, bits), mask(END_OF_CLUSTER_MIN, bits)}
    \cup (IF bits = 12 THEN {FAT12_EOC} ELSE {})
    \cup (IF bits = 32 THEN {268435456 + 2} ELSE {})

ByteOf(v, k) == (v \div (256 ^ k)) % 256

\* 12-bit layout: two entries e0, e1 share three bytes,
\*   e0[7:0] | e1[3:0] e0[11:8] | e1[11:4]
Pack12(es) ==
    LET n == Len(es)
        E(i) == IF i < n THEN es[i + 1] ELSE 0
    IN [k0 \in 1..((3 * n + 1) \div 2) |->
          LET k == k0 - 1
              e0 == E(2 * (k \div 3))
              e1 == E(2 * (k \div 3) + 1)
          IN CASE k % 3 = 0 -> e0 % 256
               [] k % 3 = 1 -> (e0 \div 256) + 16 * (e1 % 16)
               [] OTHER     -> e1 \div 16]

Pack16(es) == [k0 \in 1..(2 * Len(es)) |-> ByteOf(es[((k0 - 1) \div 2) + 1], (k0 - 1) % 2)]

Pack32(es) == [k0 \in 1..(4 * Len(es)) |-> ByteOf(es[((k0 - 1) \div 4) + 1], (k0 - 1) % 4)]

Pack(bits, es) ==
    IF bits = 12 THEN Pack12(es) ELSE IF bits = 16 THEN Pack16(es) ELSE Pack32(es)

----------------------------------------------------------------------------
(***************************************************************************)
(* Directory entry objects.  An object is named by the path of 8.3 slot    *)
(* positions that leads to it from the root (<<>> is fs.root); the objects *)
(* a caller holds are the root and the entries of the cached listings.     *)
(***************************************************************************)
EmptyMap == [x \in {} |-> <<>>]

NoCall ==
    [op |-> "none", obj |-> <<>>, path |-> <<>>, out |-> <<>>, found |-> <<>>,
     err |-> "", msg |-> <<>>, reads |-> 0, again |-> FALSE]

Parent(o) == SubSeq(o, 1, Len(o) - 1)

\* the entry record of object o, taken from the listing that holds it
ObjRec(lst, o) ==
    LET es == lst[Parent(o)]
    IN es[CHOOSE i \in 1..Len(es) : es[i].at = o[Len(o)]]

\* the objects reachable through the cached listings
Objects(lst) ==
    {<<>>} \cup UNION {{d \o <<lst[d][i].at>> : i \in 1..Len(lst[d])} : d \in DOMAIN lst}

\* DirectoryEntry.is_directory / RootDirectory.is_directory, for the root
\* (isroot) or for the entry with record rec
IsDirRec(isroot, rec) == isroot \/ HasBit(rec.attr, ATTR_DIRECTORY)
is_directory(lst, o) == IsDirRec(o = <<>>, IF o = <<>> THEN NoEntry ELSE ObjRec(lst, o))

\* DirectoryEntry.open / RootDirectory.open with dataruns(): the stream of
\* slots of the directory, or the allocation error raised while its chain is
\* resolved.  A first cluster of 0 gives the empty runlist.
OpenRec(dsk, isroot, rec) ==
    IF isroot THEN [alloc |-> "ok", slots |-> dsk.root]
    ELSE IF rec.cluster = FREE_CLUSTER THEN [alloc |-> "ok", slots |-> <<>>]
    ELSE dsk.dirs[rec.cluster]
Open(dsk, lst, o) == OpenRec(dsk, o = <<>>, IF o = <<>> THEN NoEntry ELSE ObjRec(lst, o))

\* not self._entries
NotEntries(lst, o) == o \notin DOMAIN lst \/ lst[o] = <<>>

\* iterdir() consumed to its end on object o:
\*   out, err, reads - what it yielded, the exception raised, slots read
\*   set             - whether self._entries = entries was executed
iterdir(dsk, lst, o) ==
    LET st == Open(dsk, lst, o)
        l == _iter_dirent(st.slots)
    IN IF ~is_directory(lst, o)
       THEN [out |-> <<>>, err |-> "NotADirectoryError", reads |-> 0, set |-> FALSE]
       ELSE IF ~NotEntries(lst, o)
       THEN [out |-> lst[o], err |-> "", reads |-> 0, set |-> FALSE]
       ELSE IF st.alloc # "ok"
       THEN [out |-> <<>>, err |-> st.alloc, reads |-> 0, set |-> FALSE]
       ELSE [out |-> l.entries, err |-> l.err, reads |-> l.reads, set |-> l.err = ""]

\* m with key k set to v
Put(m, k, v) == [x \in DOMAIN m \cup {k} |-> IF x = k THEN v ELSE m[x]]

----------------------------------------------------------------------------
(***************************************************************************)
(* FATFS.get.  Paths and names are sequences of characters.                *)
(***************************************************************************)
Slash == 47
Backslash == 92
FullStop == 46

\* path.replace("/", "\\")
ReplaceSlash(path) == [i \in 1..Len(path) |-> IF path[i] = Slash THEN Backslash ELSE path[i]]

\* str.split(sep): the pieces between the separators, empty ones included
RECURSIVE SplitAcc(_, _, _)
SplitAcc(str, sep, piece) ==
    IF str = <<>> THEN <<piece>>
    ELSE IF Head(str) = sep THEN <<piece>> \o SplitAcc(Tail(str), sep, <<>>)
    ELSE SplitAcc(Tail(str), sep, Append(piece, Head(str)))
Split(str, sep) == SplitAcc(str, sep, <<>>)

\* parts = path.replace("/", "\\").split("\\")
PartsBackslashOnly(path) == Split(path, Backslash)
Parts(path) == Split(ReplaceSlash(path), Backslash)

\* part_upper in (child.name.upper(), child.short_name.upper())
MatchesNameOnly(part, child) == Upper(part) = Upper(child.name)
Matches(part, child) ==
    Upper(part) \in {Upper(child.name), Upper(child.short_name)}

\* the index of the first entry of es that part matches, 0 when none does
FirstMatch(part, es) ==
    IF \E i \in 1..Len(es) : Matches(part, es[i])
    THEN CHOOSE i \in 1..Len(es) :
            /\ Matches(part, es[i])
            /\ \A j \in 1..(i - 1) : ~Matches(part, es[j])
    ELSE 0

\* what dirent.iterdir() gives the loop of FATFS.get: the entries it yields
\* (the cached ones, or those decoded before an exception), whether they
\* come from _entries, the exception it raises, and the slots read when it
\* runs to its end
Children(dsk, lst, cur) ==
    LET cached == cur.stable /\ ~NotEntries(lst, cur.pos)
        st == OpenRec(dsk, cur.root, cur.rec)
        nothing == [entries |-> <<>>, cached |-> FALSE, err |-> "", reads |-> 0]
    IN IF ~IsDirRec(cur.root, cur.rec)
       THEN [nothing EXCEPT !.err = "NotADirectoryError"]
       ELSE IF cached
       THEN [nothing EXCEPT !.entries = lst[cur.pos], !.cached = TRUE]
       ELSE IF st.alloc # "ok"
       THEN [nothing EXCEPT !.err = st.alloc]
       ELSE With(_iter_dirent(st.slots),
                 LAMBDA l : [entries |-> l.entries, cached |-> FALSE,
                             err |-> l.err, reads |-> l.reads])

\* one round of the inner for loop of FATFS.get, ch being what
\* dirent.iterdir() gives: the child taken as the new dirent (index m of the
\* listing), or the exception.  A child taken from a cached listing is an
\* object of that listing; one decoded for this call is a fresh object.
\* set tells that the iteration ran to its end and assigned _entries.
GetStep(part, cur, ch, m) ==
    IF m # 0
    THEN [kind |-> "next", err |-> "", set |-> FALSE,
          reads |-> IF ch.cached THEN 0 ELSE ch.entries[m].upto,
          dirent |-> [pos |-> cur.pos \o <<ch.entries[m].at>>, rec |-> ch.entries[m],
                      root |-> FALSE, stable |-> ch.cached]]
    ELSE IF ch.err # ""
    THEN [kind |-> "raise", err |-> ch.err, set |-> FALSE, reads |-> ch.reads,
          dirent |-> cur]
    ELSE [kind |-> "raise", err |-> "FileNotFoundError", reads |-> ch.reads,
          set |-> cur.stable /\ ~ch.cached, dirent |-> cur]

\* the for loop of FATFS.get from the part at index k on.  cur is the
\* directory entry held in dirent: its position, its record, whether it is
\* fs.root and whether it is an object of the cached listings (stable) or one
\* decoded for this call.  The result carries the entry reached or the
\* exception, the slots read, and the listing assigned to _entries of a
\* stable directory that was iterated to its end (setobj/setout when set).
RECURSIVE GetLoop(_, _, _, _, _, _)
GetLoop(dsk, lst, parts, k, cur, reads) ==
    IF k > Len(parts)
    THEN [found |-> cur.pos, err |-> "", reads |-> reads,
          set |-> FALSE, setobj |-> <<>>, setout |-> <<>>]
    ELSE IF parts[k] = <<>>
    THEN GetLoop(dsk, lst, parts, k + 1, cur, reads)
    ELSE IF cur.root /\ parts[k] \in {<<FullStop>>, <<FullStop, FullStop>>}
    THEN GetLoop(dsk, lst, parts, k + 1, cur, reads)
    ELSE With(Children(dsk, lst, cur), LAMBDA ch :
         With(GetStep(parts[k], cur, ch, FirstMatch(parts[k], ch.entries)), LAMBDA s :
            IF s.kind = "next"
            THEN GetLoop(dsk, lst, parts, k + 1, s.dirent, reads + s.reads)
            ELSE [found |-> cur.pos, err |-> s.err, reads |-> reads + s.reads,
                  set |-> s.set, setobj |-> cur.pos, setout |-> ch.entries]))

RootObject == [pos |-> <<>>, rec |-> NoEntry, root |-> TRUE, stable |-> TRUE]

\* FATFS.get(path): dirent = self.root, then the loop over the parts
FATFS_get(dsk, lst, path) ==
    With(Parts(path), LAMBDA parts : GetLoop(dsk, lst, parts, 1, RootObject, 0))

----------------------------------------------------------------------------
(***************************************************************************)
(* exFAT: geometry, cluster chains and extents (exfat.py).                 *)
(***************************************************************************)
FAT_ENTRY_SIZE == 4

\* a 32-bit word as <<low 16 bits, high 16 bits>>
Word(n) == <<n % 65536, n \div 65536>>

\* EOC = 0xFFFFFFFF and FID = 0xFFFFFFF8
EOC == <<65535, 65535>>
FID == <<65528, 65535>>

\* struct.unpack("<L", b)[0]
UnpackL(b) == <<b[1] + 256 * b[2], b[3] + 256 * b[4]>>

\* the four bytes of a word, little endian
PackL(w) == <<w[1] % 256, w[1] \div 256, w[2] % 256, w[2] \div 256>>

\* self.sector_size and self.cluster_size of ExFAT.__init__
sector_size(v) == 2 ^ v.bytes_per_sector_exp
cluster_size(v) == sector_size(v) * (2 ^ v.sectors_per_cluster_exp)

\* ExFAT.cluster_to_sector: a sector number, or None
cluster_to_sector(v, c) ==
    LET sector == ((c - 2) * (2 ^ v.sectors_per_cluster_exp)) + v.cluster_heap_sector
    IN IF sector > 0 THEN [none |-> FALSE, sector |-> sector]
       ELSE [none |-> TRUE, sector |-> 0]

\* ExFAT.sector_to_cluster: a cluster number ("ok"), None, or the TypeError
\* of subtracting the None that cluster_to_sector(2) returned
sector_to_cluster(v, sector) ==
    With(cluster_to_sector(v, 2), LAMBDA first :
        IF first.none THEN [kind |-> "TypeError", cluster |-> 0]
        ELSE With(((sector - first.sector) \div sector_size(v)) + 2, LAMBDA c :
                IF c >= 2 THEN [kind |-> "ok", cluster |-> c]
                ELSE [kind |-> "None", cluster |-> 0]))

NoConv == [op |-> "none", cluster |-> 0, sector |-> 0, kind |-> "", back |-> 0]

ConvIdle == conv = NoConv

\* self.fat.seek(starting_cluster * FAT_ENTRY_SIZE); self.fat.read(FAT_ENTRY_SIZE)
\* for a cluster number held as a word: nothing is read past the end of the
\* table, where every word with a high half of 8192 or more points
ReadEntry(tbl, w) ==
    IF w[2] >= 8192 THEN <<>>
    ELSE ReadAt(tbl, (w[1] + 65536 * w[2]) * FAT_ENTRY_SIZE, FAT_ENTRY_SIZE)

\* the while loop of ExFAT.get_cluster_chain with starting_cluster = w.  A
\* cluster met a second time is met forever: the call never returns.
RECURSIVE ChainLoop(_, _, _, _)
ChainLoop(tbl, w, chain, reads) ==
    LET b == ReadEntry(tbl, w)
        next_ == UnpackL(b)
        c == w[1] + 65536 * w[2]
    IN IF Len(b) < FAT_ENTRY_SIZE
       THEN [kind |-> "struct.error", chain |-> chain, reads |-> reads + 1]
       ELSE IF \E i \in 1..Len(chain) : chain[i] = c
       THEN [kind |-> "diverges", chain |-> chain, reads |-> reads + 1]
       ELSE IF next_ = EOC
       THEN [kind |-> "ok", chain |-> Append(chain, c), reads |-> reads + 1]
       ELSE ChainLoop(tbl, next_, Append(chain, c), reads + 1)

\* ExFAT.get_cluster_chain
get_cluster_chain(tbl, starting_cluster) ==
    IF starting_cluster < 2 THEN [kind |-> "ok", chain |-> <<>>, reads |-> 0]
    ELSE ChainLoop(tbl, Word(starting_cluster), <<>>, 0)

\* groupby(enumerate(cluster_chain), lambda i: i[0] - i[1]) from position i
\* on: consecutive positions with the same key form one (first cluster,
\* length) group
RECURSIVE GroupBy(_, _, _)
GroupBy(chain, i, groups) ==
    LET key(j) == (j - 1) - chain[j]
        n == Len(groups)
    IN IF i > Len(chain) THEN groups
       ELSE IF i > 1 /\ key(i) = key(i - 1)
       THEN GroupBy(chain, i + 1, [groups EXCEPT ![n] = <<@[1], @[2] + 1>>])
       ELSE GroupBy(chain, i + 1, Append(groups, <<chain[i], 1>>))

\* an optional argument: <<>> when left out (None), <<x>> when given
Nothing == <<>>
Truthy(size) == size # Nothing /\ size[1] # 0

\* ExFAT.runlist(starting_cluster, not_fragmented, size): the runlist or the
\* exception, and the number of table reads made
ExFAT_runlist(v, tbl, starting_cluster, not_fragmented, size) ==
    LET cc == IF not_fragmented
              THEN [kind |-> "ok", chain |-> <<starting_cluster>>, reads |-> 0]
              ELSE get_cluster_chain(tbl, starting_cluster)
        run == -((-size[1]) \div cluster_size(v))
        groups == GroupBy(cc.chain, 1, <<>>)
    IN IF cc.kind # "ok" THEN [kind |-> cc.kind, runlist |-> <<>>, reads |-> cc.reads]
       ELSE IF Truthy(size)
       THEN IF cc.chain = <<>>
            THEN [kind |-> "IndexError", runlist |-> <<>>, reads |-> cc.reads]
            ELSE [kind |-> "ok", reads |-> cc.reads,
                  runlist |-> << <<cluster_to_sector(v, cc.chain[1]), run>> >>]
       ELSE [kind |-> "ok", reads |-> cc.reads,
             runlist |-> [g \in 1..Len(groups) |->
                            <<cluster_to_sector(v, groups[g][1]), groups[g][2]>>]]

\* RootDirectory._parse_subdir(entry): the runlist handed to RunlistStream
\* for the stream entry of the directory
parse_subdir_runlist(v, tbl, stream) ==
    ExFAT_runlist(v, tbl, stream.location, stream.not_fragmented, Nothing)

NoExCall ==
    [op |-> "none", starting_cluster |-> 0, not_fragmented |-> Nothing, size |-> Nothing,
     data_length |-> 0, kind |-> "", runlist |-> <<>>, reads |-> 0]

ExIdle ==
    /\ vbr = [bytes_per_sector_exp |-> 9, sectors_per_cluster_exp |-> 0,
              cluster_heap_sector |-> 0]
    /\ fat = <<>>
    /\ ex = NoExCall

----------------------------------------------------------------------------
(***************************************************************************)
(* Opening an exFAT volume: ExFAT.__init__ and RootDirectory.              *)
(***************************************************************************)
DIR_ENTRY_SIZE == 32

BITMAP_ENTRY == 129
UPCASE_TABLE_ENTRY == 130
VOLUME_LABEL_ENTRY == 131
FILE_ENTRY == 133
STREAM_ENTRY == 192
FILENAME_ENTRY == 193
NO_VOLUME_LABEL_ENTRY == 3

\* one 32-byte directory slot, by the fields the decoder takes from it:
\* entry_type of any slot, subentry_count and attributes.directory of a
\* FILE_DIRECTORY_ENTRY, flags.not_fragmented, location and data_length of
\* a STREAM_DIRECTORY_ENTRY, filename of a FILENAME_DIRECTORY_ENTRY (the
\* label of a VOLUME_DIRECTORY_ENTRY)
Slot(t, n, d, nf, loc, len, name) ==
    [entry_type |-> t, subentry_count |-> n, directory |-> d, not_fragmented |-> nf,
     location |-> loc, data_length |-> len, filename |-> name]

\* a slot of zero bytes
Unused == Slot(0, 0, FALSE, FALSE, 0, 0, "")

\* RunlistStream(fh, runlist, size, cluster_size) as the slots it serves,
\* each with the block it is read from: the blocks of every run in turn,
\* cut at size bytes; a run without an offset serves zero bytes, a block
\* outside the volume serves nothing, and so does everything after it
BlocksOf(runlist) ==
    Flatten([r \in 1..Len(runlist) |->
        [k \in 1..runlist[r][2] |->
            IF runlist[r][1].none THEN -1 ELSE runlist[r][1].sector + (k - 1)]])

RECURSIVE Served(_, _, _, _)
Served(v, hp, blocks, i) ==
    IF i > Len(blocks) THEN <<>>
    ELSE IF blocks[i] = -1
    THEN [k \in 1..(cluster_size(v) \div DIR_ENTRY_SIZE) |-> [at |-> -1, slot |-> Unused]]
         \o Served(v, hp, blocks, i + 1)
    ELSE IF blocks[i] \notin DOMAIN hp THEN <<>>
    ELSE [k \in 1..Len(hp[blocks[i]]) |-> [at |-> blocks[i], slot |-> hp[blocks[i]][k]]]
         \o Served(v, hp, blocks, i + 1)

RunlistStream(v, hp, runlist, size) ==
    With(Served(v, hp, BlocksOf(runlist), 1), LAMBDA all :
        [size |-> size \div DIR_ENTRY_SIZE,
         slots |-> SubSeq(all, 1, IF size \div DIR_ENTRY_SIZE < Len(all)
                                  THEN size \div DIR_ENTRY_SIZE ELSE Len(all))])

\* entries[filename] = value on an OrderedDict held as a sequence of
\* <<key, value>>: a key already present keeps its place
SetItem(entries, key, value) ==
    IF \E i \in 1..Len(entries) : entries[i][1] = key
    THEN [i \in 1..Len(entries) |-> IF entries[i][1] = key THEN <<key, value>> ELSE entries[i]]
    ELSE Append(entries, <<key, value>>)

\* RootDirectory._construct_filename(fn_entries)
RECURSIVE construct_filename(_)
construct_filename(fn_entries) ==
    IF fn_entries = <<>> THEN ""
    ELSE Head(fn_entries).filename \o construct_filename(Tail(fn_entries))

\* RootDirectory._non_file_entries(entry) on the directory object d
non_file_entries(d, entry) ==
    IF entry.entry_type = VOLUME_LABEL_ENTRY \/ entry.entry_type = NO_VOLUME_LABEL_ENTRY
    THEN [d EXCEPT !.volume_entry = <<entry>>]
    ELSE IF entry.entry_type = BITMAP_ENTRY THEN [d EXCEPT !.bitmap_entry = <<entry>>]
    ELSE IF entry.entry_type = UPCASE_TABLE_ENTRY THEN [d EXCEPT !.upcase_entry = <<entry>>]
    ELSE d

\* the frames the interpreter allows a nest of _parse_subdir calls
RecursionLimit == 3

\* the slots i..j of the stream have been read
Touch(d, fh, i, j) ==
    [d EXCEPT !.read = @ \cup {fh.slots[k].at : k \in i..(IF j < Len(fh.slots) THEN j ELSE Len(fh.slots))}]

\* the value a FILE set gets in the map of its directory: the child map of
\* a directory, None (Nothing) for a file
ValueOf(file_, sub) ==
    IF file_.metadata.directory THEN <<file_, <<sub>> >> ELSE <<file_, Nothing>>

\* RootDirectory._parse_file_entries(fh) from slot i on, and
\* RootDirectory._parse_subdir(entry).  d is the RootDirectory object with
\* the outcome so far: kind is "ok" or the exception that ended the
\* decoding, entries the map being built, read the blocks read so far.
RECURSIVE parse_file_entries(_, _, _, _, _, _, _)
RECURSIVE parse_subdir(_, _, _, _, _, _)
parse_file_entries(v, tbl, hp, fh, i, d, depth) ==
    IF d.kind # "ok" \/ i > fh.size THEN d
    ELSE IF i > Len(fh.slots) THEN [d EXCEPT !.kind = "EOFError"]
    ELSE IF fh.slots[i].slot.entry_type # FILE_ENTRY
    THEN parse_file_entries(v, tbl, hp, fh, i + 1,
                            non_file_entries(Touch(d, fh, i, i), fh.slots[i].slot), depth)
    ELSE With(fh.slots[i].slot, LAMBDA metadata :
         With(IF metadata.subentry_count - 1 > 0 THEN metadata.subentry_count - 1 ELSE 0,
              LAMBDA fnentry_count :
            IF i + 1 + fnentry_count > Len(fh.slots)
            THEN [Touch(d, fh, i, i + 1 + fnentry_count) EXCEPT !.kind = "EOFError"]
            ELSE With([metadata |-> metadata, stream |-> fh.slots[i + 1].slot,
                       fn_entries |-> [k \in 1..fnentry_count |-> fh.slots[i + 1 + k].slot]],
                      LAMBDA file_ :
                 With(IF file_.metadata.directory
                      THEN parse_subdir(v, tbl, hp, file_,
                                        [Touch(d, fh, i, i + 1 + fnentry_count)
                                            EXCEPT !.entries = <<>>], depth)
                      ELSE [Touch(d, fh, i, i + 1 + fnentry_count) EXCEPT !.entries = <<>>],
                      LAMBDA sub :
                         parse_file_entries(v, tbl, hp, fh, i + 2 + fnentry_count,
                            [sub EXCEPT !.entries =
                                SetItem(d.entries, construct_filename(file_.fn_entries),
                                        ValueOf(file_, sub.entries))],
                            depth)))))

parse_subdir(v, tbl, hp, entry, d, depth) ==
    IF depth >= RecursionLimit THEN [d EXCEPT !.kind = "RecursionError"]
    ELSE With(ExFAT_runlist(v, tbl, entry.stream.location, entry.stream.not_fragmented, Nothing),
              LAMBDA r :
                IF r.kind # "ok" THEN [d EXCEPT !.kind = r.kind]
                ELSE parse_file_entries(v, tbl, hp,
                                        RunlistStream(v, hp, r.runlist, entry.stream.data_length),
                                        1, d, depth + 1))

\* the size _parse_root_dir computes from the runlist of the root
RECURSIVE SumRuns(_)
SumRuns(runlist) ==
    IF runlist = <<>> THEN 0 ELSE Head(runlist)[2] + SumRuns(Tail(runlist))

RootSizeCountingRuns(v, runlist) == Len(runlist) * cluster_size(v)
RootSize(v, runlist) == SumRuns(runlist) * cluster_size(v)

\* RootDirectory._create_root_dir: the fabricated FILE of the root
RootFile(location, size) ==
    [metadata |-> Slot(FILE_ENTRY, 2, TRUE, FALSE, 0, 0, ""),
     stream |-> Slot(STREAM_ENTRY, 0, FALSE, FALSE, location, size, ""),
     fn_entries |-> << Slot(FILENAME_ENTRY, 0, FALSE, FALSE, 0, 0, "/") >>]

NoDirectory ==
    [kind |-> "ok", entries |-> <<>>, volume_entry |-> <<>>, bitmap_entry |-> <<>>,
     upcase_entry |-> <<>>, read |-> {}]

\* RootDirectory(fh, location, exfat): __init__, _parse_root_dir and
\* _create_root_dir
RootDirectory(v, tbl, hp, location) ==
    With(ExFAT_runlist(v, tbl, location, FALSE, Nothing), LAMBDA r :
        IF r.kind # "ok" THEN [NoDirectory EXCEPT !.kind = r.kind]
        ELSE With(RootSize(v, r.runlist), LAMBDA size :
             With(parse_file_entries(v, tbl, hp, RunlistStream(v, hp, r.runlist, size),
                                     1, NoDirectory, 0),
                  LAMBDA d :
                     [d EXCEPT !.entries =
                         << <<"/", <<RootFile(location, size), <<d.entries>> >> >> >>])))

NoExFat == [state |-> "none", files |-> <<>>, volume_label |-> "", read |-> {}]

\* ExFAT(fh): the object, or the exception that left the constructor
ExFAT_init(h, v, tbl, hp) ==
    IF h.fs_name # "EXFAT   " THEN [NoExFat EXCEPT !.state = "InvalidHeaderMagic"]
    ELSE With(RootDirectory(v, tbl, hp, h.root_dir_cluster), LAMBDA d :
            IF d.kind # "ok" THEN [NoExFat EXCEPT !.state = d.kind, !.read = d.read]
            ELSE IF d.volume_entry = <<>>
            THEN [NoExFat EXCEPT !.state = "AttributeError", !.read = d.read]
            ELSE [state |-> "open", files |-> d.entries,
                  volume_label |-> d.volume_entry[1].filename, read |-> d.read])

OpenIdle ==
    /\ header = [fs_name |-> "", root_dir_cluster |-> 0]
    /\ heap = << >>
    /\ exfs = NoExFat

----------------------------------------------------------------------------
(***************************************************************************)
(* The memoized FAT.get: self.get = lru_cache(4096)(self.get).              *)
(***************************************************************************)
maxsize == 4096

\* the wrapper lru_cache puts around FAT.get, called with cluster c on the
\* cache cch: a hit moves the entry to the newest end and returns its
\* result; a miss calls FAT.get, lets its exception through without
\* caching anything, and otherwise stores the result, dropping the oldest
\* entry when the cache is full.  read tells that FAT.get read the table.
CachedGet(cch, fh, bits, c) ==
    IF \E i \in 1..Len(cch) : cch[i][1] = c
    THEN LET i == CHOOSE j \in 1..Len(cch) : cch[j][1] = c
         IN [ok |-> TRUE, value |-> cch[i][2], read |-> FALSE,
             lru |-> SubSeq(cch, 1, i - 1) \o SubSeq(cch, i + 1, Len(cch)) \o <<cch[i]>>]
    ELSE With(FAT_get(fh, bits, c), LAMBDA g :
            IF ~g.ok THEN [ok |-> FALSE, value |-> 0, read |-> FALSE, lru |-> cch]
            ELSE [ok |-> TRUE, value |-> g.value, read |-> TRUE,
                  lru |-> (IF Len(cch) >= maxsize THEN Tail(cch) ELSE cch)
                          \o << <<c, g.value>> >>])

NoGet == [n |-> 0, cluster |-> 0, ok |-> FALSE, value |-> 0, read |-> FALSE, again |-> FALSE]

CacheIdle ==
    /\ lru = <<>>
    /\ known = {}
    /\ call = NoGet

----------------------------------------------------------------------------
(***************************************************************************)
(* Opening a FAT volume: validate_bpb and FATFS.__init__.  The boot sector *)
(* is held as its parsed fields (c_fat.Bpb, BPB_FATSz32 of c_fat.Bpb32 and *)
(* BS_FilSysType of the extension).                                        *)
(***************************************************************************)
VALID_BPB_MEDIA == {240, 248, 249, 250, 251, 252, 253, 254, 255}

\* not (BS_jmpBoot[0] == 0xEB and BS_jmpBoot[2] == 0x90) and BS_jmpBoot[0] != 0xE9
BadJumpFirstByteOnly(jmp) == jmp[1] # 235 /\ jmp[1] # 233
BadJump(jmp) == ~(jmp[1] = 235 /\ jmp[3] = 144) /\ jmp[1] # 233

\* validate_bpb: the exception raised, "" when it returns
validate_bpb(bpb) ==
    IF BadJump(bpb.BS_jmpBoot) THEN "InvalidBPB"
    ELSE IF bpb.BPB_BytsPerSec \notin {2 ^ x : x \in 9..12} THEN "InvalidBPB"
    ELSE IF bpb.BPB_SecPerClus \notin {2 ^ x : x \in 0..7} THEN "InvalidBPB"
    ELSE IF bpb.BPB_RsvdSecCnt = 0 THEN "InvalidBPB"
    ELSE IF bpb.BPB_Media \notin VALID_BPB_MEDIA THEN "InvalidBPB"
    ELSE IF bpb.BPB_NumFATs < 1 THEN "InvalidBPB"
    ELSE IF bpb.BPB_RootEntCnt # 0 /\ (bpb.BPB_RootEntCnt * 32) % bpb.BPB_BytsPerSec # 0
    THEN "InvalidBPB"
    ELSE IF bpb.BPB_TotSec16 = 0 /\ bpb.BPB_TotSec32 = 0 THEN "InvalidBPB"
    ELSE ""

\* a or b of Python, on numbers
Or(a, b) == IF a # 0 THEN a ELSE b

\* the if / elif / else on count_of_clusters
FattypeInclusive(count_of_clusters) ==
    IF count_of_clusters <= 4085 THEN "FAT12"
    ELSE IF count_of_clusters <= 65525 THEN "FAT16"
    ELSE "FAT32"
Fattype(count_of_clusters) ==
    IF count_of_clusters < 4085 THEN "FAT12"
    ELSE IF count_of_clusters < 65525 THEN "FAT16"
    ELSE "FAT32"

\* FAT.__init__: bits_per_entry of the table for the type
BitsOf(fattype) ==
    IF fattype = "FAT12" THEN 12 ELSE IF fattype = "FAT16" THEN 16 ELSE 32

NoFs ==
    [state |-> "none", err |-> "", type |-> "", bits_per_entry |-> 0, fat_size |-> 0,
     total_sectors |-> 0, first_data_sector |-> 0, count_of_clusters |-> 0,
     sector_size |-> 0, cluster_size |-> 0]

\* FATFS.__init__ on the boot sector b: the attributes of the object, or the
\* exception that left no object
FATFS_init(b) ==
    LET fat_size == Or(b.BPB_FATSz16, b.BPB_FATSz32)
        total_sectors == Or(b.BPB_TotSec16, b.BPB_TotSec32)
        root_dir_sectors ==
            ((b.BPB_RootEntCnt * 32) + (b.BPB_BytsPerSec - 1)) \div b.BPB_BytsPerSec
        first_data_sector ==
            b.BPB_RsvdSecCnt + (b.BPB_NumFATs * fat_size) + root_dir_sectors
        data_sec == total_sectors - first_data_sector
        count_of_clusters == data_sec \div b.BPB_SecPerClus
    IN IF validate_bpb(b) # ""
       THEN [NoFs EXCEPT !.state = "raised", !.err = validate_bpb(b)]
       ELSE [state |-> "open", err |-> "", type |-> Fattype(count_of_clusters),
             bits_per_entry |-> BitsOf(Fattype(count_of_clusters)),
             fat_size |-> fat_size, total_sectors |-> total_sectors,
             first_data_sector |-> first_data_sector,
             count_of_clusters |-> count_of_clusters,
             sector_size |-> b.BPB_BytsPerSec,
             cluster_size |-> b.BPB_BytsPerSec * b.BPB_SecPerClus]

NoSector ==
    [BS_jmpBoot |-> <<0, 0, 0>>, BPB_BytsPerSec |-> 0, BPB_SecPerClus |-> 0,
     BPB_RsvdSecCnt |-> 0, BPB_NumFATs |-> 0, BPB_RootEntCnt |-> 0, BPB_TotSec16 |-> 0,
     BPB_Media |-> 0, BPB_FATSz16 |-> 0, BPB_TotSec32 |-> 0, BPB_FATSz32 |-> 0,
     BS_FilSysType |-> ""]

BootIdle ==
    /\ boot_sector = NoSector
    /\ fs = NoFs

----------------------------------------------------------------------------
(***************************************************************************)
(* Directory images                                                        *)
(***************************************************************************)
\* slots of a root directory image
MaxSlots == 3
\* depth below the root of the directories that are iterated (a directory
\* holds itself as ".", so the tree of entry objects has no end)
MaxDepth == 1

PadTo(str, n, fill) == [i \in 1..n |-> IF i <= Len(str) THEN str[i] ELSE fill]

\* the little-endian bytes of code units
UnitBytes(us) == [k \in 1..(2 * Len(us)) |-> ByteOf(us[((k - 1) \div 2) + 1], (k - 1) % 2)]

ShortSlot(base, ext, attr, clus) ==
    [name |-> PadTo(base, 8, 32) \o PadTo(ext, 3, 32), attr |-> attr,
     units |-> PadTo(<<>>, 13, 0), clus |-> clus]

\* a continuation slot: ordinal byte and name fragment (padded with 0xFFFF)
LongSlot(ord, us) ==
    LET units == PadTo(us, 13, 65535)
    IN [name |-> <<ord>> \o UnitBytes(SubSeq(units, 1, 5)), attr |-> ATTR_LONG_NAME,
        units |-> units, clus |-> 0]

\* "a", ordinal 1 with the last flag
LA == LongSlot(65, <<97, 0>>)
\* thirteen "c", ordinal 2
L2 == LongSlot(2, PadTo(<<>>, 13, 99))
\* thirteen "d", ordinal 3
L3 == LongSlot(3, PadTo(<<>>, 13, 100))
\* file B
SF == ShortSlot(<<66>>, <<>>, ATTR_ARCHIVE, 5)
\* directory D at cluster 2, directory E at cluster 3
SD == ShortSlot(<<68>>, <<>>, ATTR_DIRECTORY, 2)
SE == ShortSlot(<<69>>, <<>>, ATTR_DIRECTORY, 3)
\* the . entry of D
Dot == ShortSlot(<<46>>, <<>>, ATTR_DIRECTORY, 2)
\* a deleted slot and the end-of-directory slot
Del == ShortSlot(<<229, 66>>, <<>>, ATTR_ARCHIVE, 5)
End == [name |-> PadTo(<<>>, 11, 0), attr |-> 0, units |-> PadTo(<<>>, 13, 0), clus |-> 0]

SlotAlphabet == {LA, L2, L3, SF, SD, SE, Del, End}

\* the subdirectories by first cluster: D (2) lists . and a file, E (3)
\* lists nothing, and resolving the chain of 4 meets a bad cluster
SubDirs ==
    [c \in {2, 3, 4} |->
        IF c = 2 THEN [alloc |-> "ok", slots |-> <<Dot, LA, SF, End>>]
        ELSE IF c = 3 THEN [alloc |-> "ok", slots |-> <<End, SF>>]
        ELSE [alloc |-> "BadClusterError", slots |-> <<>>]]

SeqsUpTo(S, n) == UNION {[1..k -> S] : k \in 0..n}

DirIdle ==
    /\ disk = [root |-> <<>>, dirs |-> <<>>]
    /\ entries_ = EmptyMap
    /\ first_out = EmptyMap
    /\ last = NoCall

FatIdle ==
    /\ bits_per_entry = 12
    /\ stored = <<>>
    /\ fat_fh = <<>>
    /\ pc = "idle"
    /\ start = 0
    /\ cluster = 0
    /\ visited = <<>>
    /\ yielded = <<>>
    /\ run_start = 0
    /\ run_size = 0
    /\ runs = <<>>

InitDir ==
    /\ FatIdle
    /\ ExIdle
    /\ BootIdle
    /\ CacheIdle
    /\ OpenIdle
    /\ ConvIdle
    /\ \E r \in SeqsUpTo(SlotAlphabet, MaxSlots) : disk = [root |-> r, dirs |-> SubDirs]
    /\ entries_ = EmptyMap
    /\ first_out = EmptyMap
    /\ last = NoCall

\* list(o.iterdir()) on the root or on an entry of a cached listing
IterDir(o) ==
    LET r == iterdir(disk, entries_, o)
    IN /\ entries_' = IF r.set THEN Put(entries_, o, r.out) ELSE entries_
       /\ first_out' = IF r.err = "" /\ o \notin DOMAIN first_out
                       THEN Put(first_out, o, r.out) ELSE first_out
       /\ last' = [NoCall EXCEPT !.op = "iterdir", !.obj = o, !.out = r.out,
                                 !.err = r.err, !.reads = r.reads,
                                 !.again = o \in DOMAIN first_out]
       /\ UNCHANGED <<disk, fatVars, exVars, bootVars, cacheVars, openVars, convVars>>

NextDir == \E o \in Objects(entries_) : Len(o) <= MaxDepth /\ IterDir(o)

SpecDir == InitDir /\ [][NextDir]_vars

\* a continuation slot whose attribute byte has a reserved bit set (0x4F):
\* "x", ordinal 2 with the last flag
LX == [LongSlot(66, <<120, 0>>) EXCEPT !.attr = ATTR_LONG_NAME + 64]

\* the root holds any slots, those with a reserved attribute bit included
InitDecode ==
    /\ FatIdle
    /\ ExIdle
    /\ BootIdle
    /\ CacheIdle
    /\ OpenIdle
    /\ ConvIdle
    /\ \E r \in SeqsUpTo(SlotAlphabet \cup {LX}, MaxSlots) : disk = [root |-> r, dirs |-> SubDirs]
    /\ entries_ = EmptyMap
    /\ first_out = EmptyMap
    /\ last = NoCall

SpecDecode == InitDecode /\ [][NextDir]_vars

\* characters of a looked-up path
MaxPathLen == 3

\* a, A, d, and the separators and the full stop
PathChars == {97, 65, 100, Slash, Backslash, FullStop}

\* directory A at cluster 4, whose chain holds a bad cluster
SQ == ShortSlot(<<65>>, <<>>, ATTR_DIRECTORY, 4)
\* file A
SA == ShortSlot(<<65>>, <<>>, ATTR_ARCHIVE, 6)

\* root images for path lookup: long and short names that collide, a
\* subdirectory, an empty root, a directory with a bad chain, and a group
\* with two last flags behind a plain entry
PathRoots ==
    { <<LA, SF, SD, SA, End>>,
      <<LA, SD, SD, SE>>,
      <<End>>,
      <<SA, SQ, SD>>,
      <<SD, LA, LA, SA>> }

InitPath ==
    /\ FatIdle
    /\ ExIdle
    /\ BootIdle
    /\ CacheIdle
    /\ OpenIdle
    /\ ConvIdle
    /\ \E r \in PathRoots : disk = [root |-> r, dirs |-> SubDirs]
    /\ entries_ = EmptyMap
    /\ first_out = EmptyMap
    /\ last = NoCall

\* fs.get(path).  A caller lists a directory between two lookups (listing a
\* cached directory again changes nothing but the record of the last call).
Get(path) ==
    /\ last.op # "get"
    /\ \E r \in {FATFS_get(disk, entries_, path)} :
       /\ entries_' = IF r.set THEN Put(entries_, r.setobj, r.setout) ELSE entries_
       /\ first_out' = IF r.set /\ r.setobj \notin DOMAIN first_out
                       THEN Put(first_out, r.setobj, r.setout) ELSE first_out
       /\ last' = [NoCall EXCEPT !.op = "get", !.path = path, !.found = r.found,
                                 !.err = r.err, !.reads = r.reads,
                                 !.msg = IF r.err = "FileNotFoundError" THEN path ELSE <<>>]
       /\ UNCHANGED <<disk, fatVars, exVars, bootVars, cacheVars, openVars, convVars>>

NextPath ==
    \/ \E path \in SeqsUpTo(PathChars, MaxPathLen) : Get(path)
    \/ \E o \in Objects(entries_) : Len(o) <= MaxDepth /\ IterDir(o)

SpecPath == InitPath /\ [][NextPath]_vars

Running == {"run"}
ChainErrors == {"ValueError", "BadClusterError", "FreeClusterError"}

InitFat ==
    /\ bits_per_entry \in Widths
    /\ stored \in [1..NumEntries -> EntryValues(bits_per_entry)]
    /\ fat_fh = Pack(bits_per_entry, stored)
    /\ pc = "idle"
    /\ start = 0
    /\ cluster = 0
    /\ visited = <<>>
    /\ yielded = <<>>
    /\ run_start = 0
    /\ run_size = 0
    /\ runs = <<>>
    /\ DirIdle
    /\ ExIdle
    /\ BootIdle
    /\ CacheIdle
    /\ OpenIdle
    /\ ConvIdle

\* FAT.runlist(c) is called: chain = self.chain(c)
Runlist(c) ==
    /\ pc \notin Running
    /\ pc' = "run"
    /\ start' = c
    /\ cluster' = c
    /\ visited' = <<>>
    /\ yielded' = <<>>
    /\ run_start' = 0
    /\ run_size' = 0
    /\ runs' = <<>>
    /\ UNCHANGED <<bits_per_entry, fat_fh, stored, dirVars, exVars, bootVars, cacheVars, openVars, convVars>>

\* One iteration of FAT.chain, with what FAT.runlist does with the clusters it
\* yields: the loop body for each, the final yield when the chain ends, and
\* nothing more when the chain raises.
ChainStep ==
    /\ pc = "run"
    /\ Len(visited) < MaxSteps
    /\ LET it == ChainIter(fat_fh, bits_per_entry, cluster)
           r0 == [run_start |-> run_start, run_size |-> run_size, runs |-> runs]
           r1 == RunlistTakeAll(r0, it.yields)
           r2 == IF it.to = "done" THEN RunlistFinish(r1) ELSE r1
       IN /\ pc' = it.to
          /\ visited' = IF it.to = "ValueError" THEN visited ELSE Append(visited, cluster)
          /\ yielded' = yielded \o it.yields
          /\ cluster' = IF it.to = "run" THEN it.value ELSE cluster
          /\ run_start' = r2.run_start
          /\ run_size' = r2.run_size
          /\ runs' = r2.runs
    /\ UNCHANGED <<bits_per_entry, fat_fh, stored, start, dirVars, exVars, bootVars, cacheVars, openVars, convVars>>

NextFat ==
    \/ \E c \in 0..NumEntries : Runlist(c)
    \/ ChainStep

SpecFat == InitFat /\ [][NextFat]_vars

\* tables one entry shorter, whose entries are free, reserved (1), the one
\* data cluster there is, out of range, end-of-chain or bad
LiveEntries == NumEntries - 1

LiveValues(bits) ==
    {FREE_CLUSTER, 1, DATA_CLUSTER_MIN, LiveEntries,
     mask(END_OF_CLUSTER_MIN, bits), mask(BAD_CLUSTER, bits)}

InitFatLive ==
    /\ bits_per_entry \in Widths
    /\ stored \in [1..LiveEntries -> LiveValues(bits_per_entry)]
    /\ fat_fh = Pack(bits_per_entry, stored)
    /\ pc = "idle"
    /\ start = 0
    /\ cluster = 0
    /\ visited = <<>>
    /\ yielded = <<>>
    /\ run_start = 0
    /\ run_size = 0
    /\ runs = <<>>
    /\ DirIdle
    /\ ExIdle
    /\ BootIdle
    /\ CacheIdle
    /\ OpenIdle
    /\ ConvIdle

\* a chain that was started is run on: the consumer keeps asking for the
\* next cluster
SpecFatLive == InitFatLive /\ [][NextFat]_vars /\ WF_vars(ChainStep)

----------------------------------------------------------------------------
(***************************************************************************)
(* Properties of the FAT table                                             *)
(***************************************************************************)

\* each (offset, length) pair expanded to offset+2, ..., offset+length+1
ExpandRuns(rs) == Flatten([i \in 1..Len(rs) |-> Range(rs[i][1] + 2, rs[i][2])])

\* the maximal runs of numerically contiguous clusters of cs, in order, as
\* (first cluster - 2, number of clusters)
RECURSIVE MaximalRunsFrom(_, _, _)
MaximalRunsFrom(first, n, cs) ==
    IF cs = <<>> THEN << <<first - 2, n>> >>
    ELSE IF Head(cs) = first + n THEN MaximalRunsFrom(first, n + 1, Tail(cs))
    ELSE << <<first - 2, n>> >> \o MaximalRunsFrom(Head(cs), 1, Tail(cs))
MaximalRuns(cs) == IF cs = <<>> THEN <<>> ELSE MaximalRunsFrom(Head(cs), 1, Tail(cs))

\* C1: when the chain from start reaches an end-of-chain entry without an
\* error, the runs of FAT.runlist(start), expanded and re-offset by +2, are
\* exactly the clusters FAT.chain(start) yields, in order.
C1_RunlistRoundTrip == pc = "done" => ExpandRuns(runs) = yielded

\* C2: the output of FAT.runlist is the list of maximal runs of contiguous
\* clusters of the chain (two successive clusters a, b share a run iff
\* b = a + 1), each as (first cluster - 2, length).
C2_RunsAreMaximalContiguous == pc = "done" => runs = MaximalRuns(yielded)

\* C3: an entry equal to the bad-cluster sentinel of the active width raises
\* BadClusterError and a zero entry raises FreeClusterError, at the cluster
\* that holds it; the clusters yielded before the error are exactly the
\* clusters visited before it (the failing cluster and later ones are not).
C3_BadFreeStopTheChain ==
    /\ \A i \in 1..Len(visited) :
         LET v == FAT_get(fat_fh, bits_per_entry, visited[i]).value
         IN /\ v = mask(BAD_CLUSTER, bits_per_entry)
                 => i = Len(visited) /\ pc = "BadClusterError"
            /\ v = FREE_CLUSTER => i = Len(visited) /\ pc = "FreeClusterError"
    /\ pc \in {"BadClusterError", "FreeClusterError"}
         => yielded = SubSeq(visited, 1, Len(visited) - 1)

\* C4: on a FAT12 table, FAT.get(c) returns exactly the 12-bit value packed
\* at index c, for every index below the entry count, even or odd, whatever
\* the neighbouring entries hold.
C4_Fat12GetReadsBackPacked ==
    bits_per_entry = 12 =>
        /\ entry_count(fat_fh, 12) = Len(stored)
        /\ \A c \in 0..(Len(stored) - 1) :
             FAT_get(fat_fh, 12, c) = [ok |-> TRUE, value |-> stored[c + 1]]

\* an odd FAT12 entry holding the bad marker beside a nonzero even entry has
\* been resolved by the chain walk
C4_Witness ==
    /\ bits_per_entry = 12
    /\ pc = "BadClusterError"
    /\ cluster % 2 = 1
    /\ stored[cluster + 1] = mask(BAD_CLUSTER, 12)
    /\ stored[cluster] = FAT12_EOC
    /\ Len(visited) = 2

\* C18: whenever chain(start) ends without an error, the clusters yielded
\* are exactly the clusters whose entries were read, in order and each once,
\* from start to the cluster holding the end-of-chain value.
C18_ChainYieldsEachVisited ==
    pc = "done" =>
        /\ yielded = visited
        /\ visited[1] = start
        /\ \A i, j \in 1..Len(visited) : visited[i] = visited[j] => i = j

\* following the entries from cluster c meets a cluster a second time (seen
\* holds the clusters met so far)
RECURSIVE Revisits(_, _)
Revisits(c, seen) ==
    LET v == FAT_get(fat_fh, bits_per_entry, c).value
    IN IF c \in seen THEN TRUE
       ELSE IF c >= entry_count(fat_fh, bits_per_entry) THEN FALSE
       ELSE IF v = FREE_CLUSTER \/ v = mask(BAD_CLUSTER, bits_per_entry) THEN FALSE
       ELSE IF v >= mask(END_OF_CLUSTER_MIN, bits_per_entry) THEN FALSE
       ELSE IF bits_per_entry = 12 /\ v = FAT12_EOC THEN FALSE
       ELSE Revisits(v, seen \cup {c})

\* C19: chain(start) terminates, by finishing or by raising BadClusterError,
\* FreeClusterError or the out-of-range error, whenever following the
\* entries from start never revisits a cluster.
C19_ChainTerminates ==
    (pc = "run" /\ ~Revisits(start, {})) ~> (pc \in {"done"} \cup ChainErrors)

\* C19 witness: a chain through three clusters ended on the out-of-range
\* error
C19_Witness ==
    /\ pc = "ValueError"
    /\ Len(visited) = 3
    /\ ~Revisits(start, {})

\* C20: every (offset, length) pair of every runlist built, by FAT.runlist
\* and by ExFAT.runlist, has a non-negative integer offset and a length of
\* at least 1.
C20_RunsNonNegativeOffsets ==
    /\ \A i \in 1..Len(runs) : runs[i][1] >= 0 /\ runs[i][2] >= 1
    /\ \A i \in 1..Len(ex.runlist) :
         /\ ~ex.runlist[i][1].none
         /\ ex.runlist[i][1].sector >= 0
         /\ ex.runlist[i][2] >= 1

----------------------------------------------------------------------------
(***************************************************************************)
(* Properties of the directory decoder and of iterdir                      *)
(***************************************************************************)

\* the continuation slots that precede the 8.3 slot of entry e on disk
GroupSlots(stream, e) == {stream[i] : i \in (e.at - e.nl)..(e.at - 1)}

\* the fragments of a set of slots with distinct ordinals, lowest ordinal first
RECURSIVE AscendingUnits(_)
AscendingUnits(S) ==
    IF S = {} THEN <<>>
    ELSE LET m == CHOOSE x \in S : \A y \in S : x.name[1] % 64 <= y.name[1] % 64
         IN m.units \o AscendingUnits(S \ {m})

DistinctOrdinals(stream, e) ==
    Cardinality({x.name[1] % 64 : x \in GroupSlots(stream, e)}) = e.nl

\* the stream the last iterdir call decoded
LastStream == Open(disk, entries_, last.obj).slots

\* C5: the long name of an entry whose continuation slots carry distinct
\* ordinals depends only on the set of those slots, not on their order on
\* disk: it is their fragments in ascending ordinal order, cut at the first
\* null.
C5_LongNameOrderIndependent ==
    last.op = "iterdir" =>
        \A i \in 1..Len(last.out) :
            LET e == last.out[i]
            IN e.nl > 0 /\ DistinctOrdinals(LastStream, e)
                   => e.lname = CutNull(AscendingUnits(GroupSlots(LastStream, e)))

\* a listed entry whose two continuation slots are stored lowest ordinal last
C5_Witness ==
    /\ last.op = "iterdir"
    /\ \E i \in 1..Len(last.out) :
          LET e == last.out[i]
          IN /\ e.nl = 2
             /\ DistinctOrdinals(LastStream, e)
             /\ LastStream[e.at - 2].name[1] % 64 > LastStream[e.at - 1].name[1] % 64
             /\ e.lname # <<>>

\* C21: iteration yields no entry whose 8.3 slot begins with 0xE5, and
\* builds no entry from the first slot that begins with 0x00 or from any
\* slot after it.
C21_DeletedSkippedAndEndStops ==
    last.op = "iterdir" /\ last.reads > 0 =>
        \A i \in 1..Len(last.out) :
            /\ LastStream[last.out[i].at].name[1] # 229
            /\ \A j \in 1..last.out[i].at : LastStream[j].name[1] # 0

\* the long-name test of the decoder: attr & ATTR_LONG_NAME_MASK = ATTR_LONG_NAME
Continuation(slot) == AndLow(slot.attr, ATTR_LONG_NAME_MASK) = ATTR_LONG_NAME

\* the slot carries the last-entry flag in its ordinal byte
Flagged(slot) == HasBit(slot.name[1], LAST_LONG_ENTRY)

\* C22: every slot that matches the long-name marker under the mask is
\* accumulated as a continuation slot; the first slot that does not match is
\* decoded as the 8.3 entry, so an entry with k continuation slots took the
\* k matching slots before its 8.3 slot and that slot, which does not
\* match, and a group never has no fragment.
C22_ContinuationSlotsAccumulated ==
    last.op = "iterdir" =>
        /\ last.err # "TypeError"
        /\ \A i \in 1..Len(last.out) :
              /\ ~Continuation(LastStream[last.out[i].at])
              /\ \A j \in (last.out[i].at - last.out[i].nl)..(last.out[i].at - 1) :
                    Continuation(LastStream[j])
              /\ last.out[i].upto = last.out[i].at

\* the number of flagged continuation slots among the slots from..to
FlaggedIn(stream, from, to) ==
    Cardinality({j \in from..to : Continuation(stream[j]) /\ Flagged(stream[j])})

\* C23: no entry is produced from a group in which two continuation slots
\* carry the last-entry flag, and InvalidDirectoryError is raised only at a
\* flagged continuation slot that follows another flagged slot of its group.
C23_SecondLastFlagRejected ==
    last.op = "iterdir" =>
        /\ \A i \in 1..Len(last.out) :
              FlaggedIn(LastStream, last.out[i].at - last.out[i].nl, last.out[i].at) <= 1
        /\ last.err = "InvalidDirectoryError" =>
              /\ Continuation(LastStream[last.reads]) /\ Flagged(LastStream[last.reads])
              /\ \E j \in 1..(last.reads - 1) :
                    /\ Flagged(LastStream[j])
                    /\ \A k \in j..last.reads : Continuation(LastStream[k])

\* C6: when iterdir() has been consumed to its end on an entry, a later
\* iterdir() on the same entry yields the same entries in the same order and
\* reads no slot from the byte source.
C6_SecondIterdirFromCache ==
    last.op = "iterdir" /\ last.again
        => /\ last.err = ""
           /\ last.out = first_out[last.obj]
           /\ last.reads = 0

----------------------------------------------------------------------------
(***************************************************************************)
(* The exFAT volume: geometries, tables, and the calls made on it.         *)
(***************************************************************************)
\* the largest data_length of a stream entry, in clusters
MaxClusters == 2

\* the largest cluster number passed as a start cluster
MaxStart == 5

\* the geometries of the two test images (512-byte clusters with the heap at
\* sector 256; eight 512-byte sectors per cluster with the heap at sector
\* 4096) and one with a heap so low that clusters 0 and 1 have no sector
Geometries ==
    { [bytes_per_sector_exp |-> 9, sectors_per_cluster_exp |-> 0, cluster_heap_sector |-> 256],
      [bytes_per_sector_exp |-> 9, sectors_per_cluster_exp |-> 3, cluster_heap_sector |-> 4096],
      [bytes_per_sector_exp |-> 9, sectors_per_cluster_exp |-> 1, cluster_heap_sector |-> 2] }

\* tables of six entries: entries 0 and 1 are FID and EOC; from cluster 2 a
\* contiguous chain, a fragmented one, a cycle, a chain through a free
\* entry, and a chain that leaves the table
ExTables ==
    { <<FID, EOC, Word(3), Word(4), EOC, EOC>>,
      <<FID, EOC, Word(4), EOC, Word(3), Word(2)>>,
      <<FID, EOC, Word(3), Word(2), Word(5), EOC>>,
      <<FID, EOC, Word(0), Word(4), Word(5), EOC>>,
      <<FID, EOC, Word(5), Word(6), EOC, Word(3)>> }

PackTable(t) == Flatten([i \in 1..Len(t) |-> PackL(t[i])])

\* data lengths around the cluster boundaries
DataLengths(v) ==
    {0, 1} \cup UNION {{k * cluster_size(v), k * cluster_size(v) + 1} : k \in 1..MaxClusters}

InitExFat ==
    /\ FatIdle
    /\ DirIdle
    /\ BootIdle
    /\ CacheIdle
    /\ OpenIdle
    /\ ConvIdle
    /\ vbr \in Geometries
    /\ \E t \in ExTables : fat = PackTable(t)
    /\ ex = NoExCall

\* exfat.runlist(starting_cluster, not_fragmented, size), the two optional
\* arguments given or left at their defaults (True, None)
ExRunlist(c, nf, size) ==
    LET r == ExFAT_runlist(vbr, fat, c, IF nf = Nothing THEN TRUE ELSE nf[1], size)
    IN /\ ex' = [NoExCall EXCEPT !.op = "runlist", !.starting_cluster = c,
                                 !.not_fragmented = nf, !.size = size,
                                 !.kind = r.kind, !.runlist = r.runlist, !.reads = r.reads]
       /\ UNCHANGED <<vbr, fat, fatVars, dirVars, bootVars, cacheVars, openVars, convVars>>

\* a subdirectory whose stream entry is stream is decoded
ParseSubdir(stream) ==
    LET r == parse_subdir_runlist(vbr, fat, stream)
    IN /\ ex' = [NoExCall EXCEPT !.op = "_parse_subdir",
                                 !.starting_cluster = stream.location,
                                 !.not_fragmented = <<stream.not_fragmented>>,
                                 !.data_length = stream.data_length,
                                 !.kind = r.kind, !.runlist = r.runlist, !.reads = r.reads]
       /\ UNCHANGED <<vbr, fat, fatVars, dirVars, bootVars, cacheVars, openVars, convVars>>

NextExFat ==
    \/ \E c \in 0..MaxStart, nf \in {Nothing, <<TRUE>>, <<FALSE>>},
          size \in {Nothing} \cup {<<n>> : n \in DataLengths(vbr)} : ExRunlist(c, nf, size)
    \/ \E loc \in 2..MaxStart, nf \in BOOLEAN, n \in DataLengths(vbr) :
          ParseSubdir([location |-> loc, not_fragmented |-> nf, data_length |-> n])

SpecExFat == InitExFat /\ [][NextExFat]_vars

----------------------------------------------------------------------------
(***************************************************************************)
(* Boot sectors, and opening the volume.                                   *)
(***************************************************************************)
\* field values around every test of validate_bpb and around the cluster
\* count thresholds
BootSectors ==
    [BS_jmpBoot : {<<235, 60, 144>>, <<233, 0, 0>>, <<235, 60, 0>>},
     BPB_BytsPerSec : {0, 512, 768, 4096},
     BPB_SecPerClus : {1, 3, 128},
     BPB_RsvdSecCnt : {0, 1},
     BPB_NumFATs : {0, 1},
     BPB_RootEntCnt : {0, 16, 17},
     BPB_TotSec16 : {0, 4086, 4087, 65526, 65527},
     BPB_Media : {247, 248},
     BPB_FATSz16 : {0, 1},
     BPB_TotSec32 : {0, 4087, 65535},
     BPB_FATSz32 : {9},
     BS_FilSysType : {"FAT12   ", "FAT32   "}]

InitBoot ==
    /\ FatIdle
    /\ DirIdle
    /\ ExIdle
    /\ CacheIdle
    /\ OpenIdle
    /\ ConvIdle
    /\ boot_sector \in BootSectors
    /\ fs = NoFs

\* FATFS(fh)
OpenFat ==
    /\ fs.state = "none"
    /\ fs' = FATFS_init(boot_sector)
    /\ UNCHANGED <<boot_sector, fatVars, dirVars, exVars, cacheVars, openVars, convVars>>

NextBoot == OpenFat

SpecBoot == InitBoot /\ [][NextBoot]_vars

----------------------------------------------------------------------------
(***************************************************************************)
(* A large table and the calls of its memoized get.                        *)
(***************************************************************************)
\* entries of the table: more than the cache holds
TableEntries == 4100

\* calls made after the table was walked
MaxCalls == 4

\* one contiguous file from cluster 2 to the last cluster of the table
LongFile ==
    [i \in 1..TableEntries |->
        IF i <= 2 THEN mask(END_OF_CLUSTER_MAX, 16)
        ELSE IF i = TableEntries THEN mask(END_OF_CLUSTER_MIN, 16)
        ELSE i]

\* the cache after get(2), get(3), ..., get(upto), each a miss that found
\* room: what a walk of the file from cluster 2 leaves
Walked(fh, upto) == [i \in 1..(upto - 1) |-> <<i + 1, FAT_get(fh, 16, i + 1).value>>]

\* the table was opened as FAT16 and the file walked up to its first cluster
\* only, or as far as fills the cache
InitCache ==
    /\ DirIdle
    /\ ExIdle
    /\ BootIdle
    /\ OpenIdle
    /\ ConvIdle
    /\ bits_per_entry = 16
    /\ stored = LongFile
    /\ fat_fh = Pack(16, stored)
    /\ pc = "idle"
    /\ start = 0
    /\ cluster = 0
    /\ visited = <<>>
    /\ yielded = <<>>
    /\ run_start = 0
    /\ run_size = 0
    /\ runs = <<>>
    /\ \E upto \in {2, maxsize + 1} :
          /\ lru = Walked(fat_fh, upto)
          /\ known = 2..upto
    /\ call = NoGet

\* fat.get(c)
CacheGet(c) ==
    /\ call.n < MaxCalls
    /\ \E r \in {CachedGet(lru, fat_fh, bits_per_entry, c)} :
          /\ lru' = r.lru
          /\ known' = IF r.ok THEN known \cup {c} ELSE known
          /\ call' = [n |-> call.n + 1, cluster |-> c, ok |-> r.ok, value |-> r.value,
                      read |-> r.read, again |-> c \in known]
    /\ UNCHANGED <<fatVars, dirVars, exVars, bootVars, openVars, convVars>>

NextCache ==
    \E c \in {2, 3, maxsize + 2, maxsize + 3, TableEntries} : CacheGet(c)

SpecCache == InitCache /\ [][NextCache]_vars

----------------------------------------------------------------------------
(***************************************************************************)
(* Small exFAT volumes and their opening.                                  *)
(***************************************************************************)
\* the geometry of the exfat_simple test image: a cluster is one sector of
\* 512 bytes and cluster 2 is block 256
SimpleGeometry ==
    [bytes_per_sector_exp |-> 9, sectors_per_cluster_exp |-> 0, cluster_heap_sector |-> 256]

\* 0xFFFFFFF7, the mark of a bad cluster
BAD == <<65527, 65535>>

\* the three slots of a file or directory: FILE, STREAM and FILENAME entry
FileSet(name, d, nf, loc, len) ==
    << Slot(FILE_ENTRY, 2, d, FALSE, 0, 0, ""),
       Slot(STREAM_ENTRY, 0, FALSE, nf, loc, len, ""),
       Slot(FILENAME_ENTRY, 0, FALSE, FALSE, 0, 0, name) >>

\* slots filled up with unused ones to a whole cluster
Block(v, slots) ==
    slots \o [k \in 1..((cluster_size(v) \div DIR_ENTRY_SIZE) - Len(slots)) |-> Unused]

\* the slot that names the volume, if the root has one
Labels ==
    { << Slot(VOLUME_LABEL_ENTRY, 0, FALSE, FALSE, 0, 0, "THESIS") >>,
      << Slot(NO_VOLUME_LABEL_ENTRY, 0, FALSE, FALSE, 0, 0, "") >>,
      << >> }

\* what cluster 4, the cluster of directory "d", holds: nothing, a file, or
\* a directory placed in cluster 4 itself
SubdirContents ==
    { << >>,
      FileSet("c", FALSE, TRUE, 5, 9),
      FileSet("e", TRUE, TRUE, 4, 512) }

\* the root is cluster 2, alone or followed by cluster 3; it holds the
\* label, the bitmap and upcase entries, file "a", directory "d" in cluster
\* 4 and file "b"; the entry of cluster 4 in the table ends the chain, goes
\* on to cluster 5, is free, is bad, or points to itself
InitExOpen ==
    /\ FatIdle
    /\ DirIdle
    /\ BootIdle
    /\ CacheIdle
    /\ ConvIdle
    /\ vbr = SimpleGeometry
    /\ ex = NoExCall
    /\ exfs = NoExFat
    /\ \E magic \in {"EXFAT   ", "NTFS    "} :
          header = [fs_name |-> magic, root_dir_cluster |-> 2]
    /\ \E t2 \in {EOC, Word(3)}, t4 \in {EOC, Word(5), Word(0), BAD, Word(4)} :
          fat = PackTable(<<FID, EOC, t2, EOC, t4, EOC>>)
    /\ \E label \in Labels, sub \in SubdirContents, nf \in BOOLEAN, len \in {0, 512} :
          heap = (256 :> Block(vbr, label
                                \o << Slot(BITMAP_ENTRY, 0, FALSE, FALSE, 0, 0, ""),
                                      Slot(UPCASE_TABLE_ENTRY, 0, FALSE, FALSE, 0, 0, "") >>
                                \o FileSet("a", FALSE, TRUE, 5, 9)
                                \o FileSet("d", TRUE, nf, 4, len)
                                \o FileSet("b", FALSE, TRUE, 5, 9)))
              @@ (257 :> Block(vbr, FileSet("z", FALSE, TRUE, 5, 9)))
              @@ (258 :> Block(vbr, sub))
              @@ (259 :> Block(vbr, FileSet("f", FALSE, TRUE, 5, 9)))

\* e = exfat.ExFAT(fh)
OpenExFat ==
    /\ exfs.state = "none"
    /\ exfs' = ExFAT_init(header, vbr, fat, heap)
    /\ UNCHANGED <<header, heap, vbr, fat, ex, fatVars, dirVars, bootVars, cacheVars, convVars>>

\* the entries of the root, as e.files["/"][1] holds them
RootEntries == exfs.files[1][2][2][1]

\* e.runlist(entry.stream.location, entry.stream.flags.not_fragmented) for
\* the i-th entry of the root
ResolveEntry(i) ==
    /\ exfs.state = "open"
    /\ i \in 1..Len(RootEntries)
    /\ \E stream \in {RootEntries[i][2][1].stream} :
       \E r \in {ExFAT_runlist(vbr, fat, stream.location, stream.not_fragmented, Nothing)} :
          ex' = [NoExCall EXCEPT !.op = "runlist", !.starting_cluster = stream.location,
                                 !.not_fragmented = <<stream.not_fragmented>>,
                                 !.data_length = stream.data_length,
                                 !.kind = r.kind, !.runlist = r.runlist, !.reads = r.reads]
    /\ UNCHANGED <<openVars, vbr, fat, fatVars, dirVars, bootVars, cacheVars, convVars>>

NextExOpen ==
    \/ OpenExFat
    \/ \E i \in 1..MaxSlots : ResolveEntry(i)

SpecExOpen == InitExOpen /\ [][NextExOpen]_vars

----------------------------------------------------------------------------
(***************************************************************************)
(* exFAT geometries and the conversion between clusters and sectors.       *)
(***************************************************************************)
\* sectors of 512 and 4096 bytes; 1, 2 and 8 sectors per cluster; the
\* cluster heap at sector 0, 256 and 4096
ConvGeometries ==
    [bytes_per_sector_exp : {9, 12}, sectors_per_cluster_exp : {0, 1, 3},
     cluster_heap_sector : {0, 256, 4096}]

InitConv ==
    /\ FatIdle
    /\ DirIdle
    /\ BootIdle
    /\ CacheIdle
    /\ OpenIdle
    /\ vbr \in ConvGeometries
    /\ fat = <<>>
    /\ ex = NoExCall
    /\ conv = NoConv

\* e.sector_to_cluster(e.cluster_to_sector(c) + k) for the k-th sector of
\* cluster c, where cluster_to_sector(c) is a sector number
SectorToCluster(c, k) ==
    /\ ~cluster_to_sector(vbr, c).none
    /\ k < 2 ^ vbr.sectors_per_cluster_exp
    /\ \E r \in {sector_to_cluster(vbr, cluster_to_sector(vbr, c).sector + k)} :
          conv' = [op |-> "sector_to_cluster", cluster |-> c,
                   sector |-> cluster_to_sector(vbr, c).sector + k,
                   kind |-> r.kind, back |-> r.cluster]
    /\ UNCHANGED <<fatVars, dirVars, exVars, bootVars, cacheVars, openVars>>

NextConv == \E c \in 2..MaxStart, k \in 0..7 : SectorToCluster(c, k)

SpecConv == InitConv /\ [][NextConv]_vars

----------------------------------------------------------------------------
(***************************************************************************)
(* Properties of path lookup.                                              *)
(***************************************************************************)
\* the segments a path names: the pieces between separators of either kind,
\* empty pieces dropped
RECURSIVE SegmentsAcc(_, _)
SegmentsAcc(path, piece) ==
    LET done == IF piece = <<>> THEN <<>> ELSE <<piece>>
    IN IF path = <<>> THEN done
       ELSE IF Head(path) \in {Slash, Backslash} THEN done \o SegmentsAcc(Tail(path), <<>>)
       ELSE SegmentsAcc(Tail(path), Append(piece, Head(path)))
Segments(path) == SegmentsAcc(path, <<>>)

\* . and .. segments met while the lookup is still at the root are the
\* leading ones
RECURSIVE DropLeadingDots(_)
DropLeadingDots(segs) ==
    IF segs # <<>> /\ Head(segs) \in {<<FullStop>>, <<FullStop, FullStop>>}
    THEN DropLeadingDots(Tail(segs))
    ELSE segs

\* the remaining segments, in upper case
Canon(path) ==
    LET segs == DropLeadingDots(Segments(path))
    IN [i \in 1..Len(segs) |-> Upper(segs[i])]

RECURSIVE JoinBackslash(_)
JoinBackslash(segs) ==
    IF segs = <<>> THEN <<>>
    ELSE IF Len(segs) = 1 THEN Head(segs)
    ELSE Head(segs) \o <<Backslash>> \o JoinBackslash(Tail(segs))

\* paths that differ from path only in case, separators, empty segments or
\* leading dot segments
Variants(path) ==
    { JoinBackslash(Canon(path)),
      Upper(path),
      [i \in 1..Len(path) |-> IF path[i] = Backslash THEN Slash ELSE path[i]],
      <<Slash>> \o path,
      path \o <<Backslash>>,
      <<FullStop, Slash>> \o path,
      <<FullStop, FullStop, Backslash, Slash>> \o path }

\* a segment names a child by its long name or its short name, whatever the case
Names(seg, e) == Upper(seg) = Upper(e.name) \/ Upper(seg) = Upper(e.short_name)

\* walking the segments down the on-disk directories, each time to the first
\* child in directory order that the segment names: the position reached,
\* and why the walk stopped
RECURSIVE Walk(_, _, _, _, _)
Walk(dsk, pos, rec, isroot, segs) ==
    IF segs = <<>> THEN [why |-> "ok", pos |-> pos]
    ELSE IF ~IsDirRec(isroot, rec) THEN [why |-> "notdir", pos |-> pos]
    ELSE IF OpenRec(dsk, isroot, rec).alloc # "ok" THEN [why |-> "other", pos |-> pos]
    ELSE With(_iter_dirent(OpenRec(dsk, isroot, rec).slots), LAMBDA l :
         With({i \in 1..Len(l.entries) : Names(Head(segs), l.entries[i])}, LAMBDA cands :
            IF cands # {}
            THEN With(l.entries[CHOOSE c \in cands : \A d \in cands : c <= d], LAMBDA e :
                    Walk(dsk, pos \o <<e.at>>, e, FALSE, Tail(segs)))
            ELSE IF l.err # "" THEN [why |-> "other", pos |-> pos]
            ELSE [why |-> "nomatch", pos |-> pos]))
Resolve(dsk, path) ==
    With(Canon(path), LAMBDA segs : Walk(dsk, <<>>, NoEntry, TRUE, segs))

\* C7: FATFS.get resolves paths that differ only in case, in the separator,
\* in empty segments or in . and .. segments at the root to the same
\* directory entry, and the entry is the one reached by matching each
\* remaining segment case-insensitively against long or short names, first
\* match in directory order.
C7_GetPathEquivalence ==
    last.op = "get" =>
        LET r == Resolve(disk, last.path)
        IN /\ \A q \in Variants(last.path) :
                LET g == FATFS_get(disk, entries_, q)
                IN g.err = last.err /\ g.found = last.found
           /\ (last.err = "" <=> r.why = "ok")
           /\ (r.why = "ok" => last.found = r.pos)

\* C7 witness: a lookup not written in canonical form found an entry of a
\* subdirectory
C7_Witness ==
    /\ last.op = "get"
    /\ last.err = ""
    /\ Len(last.found) = 2
    /\ last.path # JoinBackslash(Canon(last.path))

\* C8: FATFS.get raises FileNotFoundError, naming the full requested path,
\* exactly when a segment names no child of the directory reached so far,
\* and NotADirectoryError when a segment is looked up inside an entry that
\* is not a directory.
C8_GetNotFound ==
    last.op = "get" =>
        LET r == Resolve(disk, last.path)
        IN /\ (last.err = "FileNotFoundError" <=> r.why = "nomatch")
           /\ (last.err = "FileNotFoundError" => last.msg = last.path)
           /\ (r.why = "notdir" <=> last.err = "NotADirectoryError")

\* C8 witness: a lookup descended into a subdirectory and found no child
\* named by the next segment
C8_Witness ==
    /\ last.op = "get"
    /\ last.err = "FileNotFoundError"
    /\ Len(Resolve(disk, last.path).pos) = 1
    /\ last.msg = last.path

\* a lookup inside a file raised NotADirectoryError
C8_NotADirectoryReached ==
    last.op = "get" /\ last.err = "NotADirectoryError"

----------------------------------------------------------------------------
(***************************************************************************)
(* Properties of exFAT extents.                                            *)
(***************************************************************************)
Ceil(n, d) == (n + d - 1) \div d

\* the extent of a not-fragmented stream entry was built: by runlist given
\* the entry's cluster and data length, or by decoding it as a subdirectory
NotFragmentedExtentBuilt ==
    \/ ex.op = "runlist" /\ ex.not_fragmented \in {Nothing, <<TRUE>>} /\ ex.size # Nothing
    \/ ex.op = "_parse_subdir" /\ ex.not_fragmented = <<TRUE>>

\* C9: the extent built for a not-fragmented stream entry (declared cluster
\* 2 or more) is one run from the entry's cluster covering ceil(data_length / cluster_size) clusters,
\* for every data_length, and the table is not read.
C9_NotFragmentedExtent ==
    NotFragmentedExtentBuilt /\ ex.starting_cluster >= 2 =>
        LET n == IF ex.op = "runlist" THEN ex.size[1] ELSE ex.data_length
        IN /\ ex.kind = "ok"
           /\ ex.reads = 0
           /\ ex.runlist = << <<cluster_to_sector(vbr, ex.starting_cluster),
                                Ceil(n, cluster_size(vbr))>> >>

\* C10: runlist(c) with only a start cluster c >= 2 returns the one pair
\* (cluster_to_sector(c), n), n the number of sectors in a cluster.
C10_DefaultRunInSectors ==
    /\ ex.op = "runlist" /\ ex.not_fragmented = Nothing /\ ex.size = Nothing
    /\ ex.starting_cluster >= 2
    =>  /\ ex.kind = "ok"
        /\ ex.runlist = << <<cluster_to_sector(vbr, ex.starting_cluster),
                             2 ^ vbr.sectors_per_cluster_exp>> >>

----------------------------------------------------------------------------
(***************************************************************************)
(* Properties of opening a FAT volume.                                     *)
(***************************************************************************)
\* the conditions on the boot sector under which opening has to fail
Rejected(b) ==
    \/ ~((b.BS_jmpBoot[1] = 235 /\ b.BS_jmpBoot[3] = 144) \/ b.BS_jmpBoot[1] = 233)
    \/ b.BPB_BytsPerSec \notin {512, 1024, 2048, 4096}
    \/ b.BPB_SecPerClus \notin {1, 2, 4, 8, 16, 32, 64, 128}
    \/ b.BPB_RsvdSecCnt = 0
    \/ b.BPB_Media \notin VALID_BPB_MEDIA
    \/ b.BPB_NumFATs = 0
    \/ (b.BPB_RootEntCnt * 32) % b.BPB_BytsPerSec # 0
    \/ (b.BPB_TotSec16 = 0 /\ b.BPB_TotSec32 = 0)

\* C11: opening a FAT filesystem fails with InvalidBPB, leaving no
\* filesystem object, if and only if the boot sector meets one of the listed
\* conditions (jump bytes, bytes per sector, sectors per cluster, reserved
\* sectors, media byte, FAT count, root entry alignment, both totals zero).
C11_InvalidBpbIff ==
    fs.state # "none" =>
        /\ (fs.state = "raised" /\ fs.err = "InvalidBPB") <=> Rejected(boot_sector)
        /\ fs.state = "raised" => fs = [NoFs EXCEPT !.state = "raised", !.err = fs.err]
        /\ ~Rejected(boot_sector) => fs.state = "open"

\* C11 witness: opening failed on a boot sector whose only fault is a third
\* jump byte other than 0x90
C11_Witness ==
    /\ fs.state = "raised"
    /\ fs.err = "InvalidBPB"
    /\ boot_sector.BS_jmpBoot[1] = 235
    /\ ~Rejected([boot_sector EXCEPT !.BS_jmpBoot = <<235, 60, 144>>])

\* the cluster count of a boot sector
ClusterCount(b) ==
    LET fat_sz == IF b.BPB_FATSz16 # 0 THEN b.BPB_FATSz16 ELSE b.BPB_FATSz32
        total == IF b.BPB_TotSec16 # 0 THEN b.BPB_TotSec16 ELSE b.BPB_TotSec32
        root_sectors == (b.BPB_RootEntCnt * 32 + b.BPB_BytsPerSec - 1) \div b.BPB_BytsPerSec
        first_data == b.BPB_RsvdSecCnt + b.BPB_NumFATs * fat_sz + root_sectors
    IN (total - first_data) \div b.BPB_SecPerClus

\* C12: the FAT variant is chosen from the cluster count alone: below 4085
\* FAT12 with 12-bit entries, 4085 to 65524 FAT16 with 16-bit entries, above
\* FAT32 with 32-bit entries; the stored file-system-type string plays no part.
C12_VariantFromClusterCount ==
    fs.state = "open" =>
        LET n == ClusterCount(boot_sector)
        IN /\ fs.count_of_clusters = n
           /\ n < 4085 => fs.type = "FAT12" /\ fs.bits_per_entry = 12
           /\ (n >= 4085 /\ n <= 65524) => fs.type = "FAT16" /\ fs.bits_per_entry = 16
           /\ n > 65524 => fs.type = "FAT32" /\ fs.bits_per_entry = 32
           /\ \A t \in {"FAT12   ", "FAT16   ", "FAT32   "} :
                FATFS_init([boot_sector EXCEPT !.BS_FilSysType = t]).type = fs.type

\* C12 witness: a volume of exactly 4085 clusters whose type string says
\* FAT12 was opened as FAT16
C12_Witness ==
    /\ fs.state = "open"
    /\ fs.count_of_clusters = 4085
    /\ fs.type = "FAT16"
    /\ boot_sector.BS_FilSysType = "FAT12   "

\* C16: every opened FAT filesystem has exactly one of the 16-bit and 32-bit
\* total-sector fields nonzero, and the total used is that field.
C16_ExactlyOneTotalSectorField ==
    fs.state = "open" =>
        /\ (boot_sector.BPB_TotSec16 = 0) # (boot_sector.BPB_TotSec32 = 0)
        /\ fs.total_sectors = boot_sector.BPB_TotSec16 + boot_sector.BPB_TotSec32

----------------------------------------------------------------------------
(***************************************************************************)
(* Properties of the memoized FAT.get.                                     *)
(***************************************************************************)
\* C17: every call of FAT.get after the first successful one for an index
\* returns the same value without reading the table, however many other
\* indices were looked up in between.
C17_GetReadsOncePerIndex ==
    call.n > 0 /\ call.again =>
        /\ call.ok
        /\ ~call.read
        /\ call.value = stored[call.cluster + 1]

----------------------------------------------------------------------------
(***************************************************************************)
(* Properties of the opened exFAT volume.                                  *)
(***************************************************************************)
\* in map m and in every map below it a directory has a child map, a file
\* has None, and every value starts with a FILE entry
RECURSIVE WellFormedMap(_)
WellFormedMap(m) ==
    \A i \in 1..Len(m) :
        /\ m[i][2][1].metadata.entry_type = FILE_ENTRY
        /\ IF m[i][2][1].metadata.directory
           THEN m[i][2][2] # Nothing /\ WellFormedMap(m[i][2][2][1])
           ELSE m[i][2][2] = Nothing

\* the names found in map m and in every map below it
RECURSIVE KeysOf(_)
KeysOf(m) ==
    UNION {{m[i][1]} \cup (IF m[i][2][2] = Nothing THEN {} ELSE KeysOf(m[i][2][2][1]))
           : i \in 1..Len(m)}

\* C13: the file map of an opened exFAT filesystem has the one key "/",
\* whose value is the fabricated root entry (a directory, not-fragmented
\* flag 0, location the root cluster, data_length the number of clusters of
\* the root chain times the cluster size) and the child map; at every level
\* a directory maps to (entry, child map) and a file to (entry, None), and
\* label, bitmap and upcase entries are keys of no map.
C13_FileMapShape ==
    exfs.state = "open" =>
        /\ Len(exfs.files) = 1
        /\ exfs.files[1][1] = "/"
        /\ exfs.files[1][2][1].metadata.directory
        /\ ~exfs.files[1][2][1].stream.not_fragmented
        /\ exfs.files[1][2][1].stream.location = header.root_dir_cluster
        /\ exfs.files[1][2][1].stream.data_length =
              Len(get_cluster_chain(fat, header.root_dir_cluster).chain) * cluster_size(vbr)
        /\ WellFormedMap(exfs.files)
        /\ KeysOf(exfs.files) \cap {"THESIS", ""} = {}

\* C13 witness: a volume with a root of two clusters was opened; the root
\* holds a directory with a file in it.
C13_Witness ==
    /\ exfs.state = "open"
    /\ exfs.files[1][2][1].stream.data_length = 2 * cluster_size(vbr)
    /\ exfs.volume_label = "THESIS"
    /\ \E i \in 1..Len(RootEntries) :
          /\ RootEntries[i][1] = "d"
          /\ RootEntries[i][2][2] # Nothing
          /\ RootEntries[i][2][2][1] # <<>>
    /\ \E i \in 1..Len(RootEntries) : RootEntries[i][1] = "z"

\* the table marks a cluster of the chain of directory "d" as free or bad,
\* and the entry of "d" says its chain is in the table
SubdirMeetsBadOrFree ==
    /\ \E i \in 1..Len(heap[256]) :
          /\ heap[256][i].entry_type = STREAM_ENTRY
          /\ heap[256][i].location = 4
          /\ ~heap[256][i].not_fragmented
    /\ UnpackL(ReadAt(fat, 4 * FAT_ENTRY_SIZE, FAT_ENTRY_SIZE)) \in {Word(0), BAD}

\* the root holds a slot that names the volume
HasLabel ==
    heap[256][1].entry_type \in {VOLUME_LABEL_ENTRY, NO_VOLUME_LABEL_ENTRY}

\* C14: a free or bad cluster in the chain of one directory does not make
\* opening the filesystem fail: the volume opens and the siblings of the
\* directory are in the map of the parent.
C14_AllocationErrorConfined ==
    (exfs.state # "none" /\ header.fs_name = "EXFAT   " /\ HasLabel /\ SubdirMeetsBadOrFree) =>
        /\ exfs.state = "open"
        /\ {"a", "b"} \subseteq {RootEntries[i][1] : i \in 1..Len(RootEntries)}

\* every block read so far is a block of the root directory
OnlyRootRead ==
    \E r \in {BlocksOf(ExFAT_runlist(vbr, fat, header.root_dir_cluster, FALSE, Nothing).runlist)} :
        exfs.read \subseteq {r[i] : i \in 1..Len(r)}

\* C15: opening the filesystem reads the slots of the root only; no slot
\* of a subdirectory is read before that directory is iterated.
C15_DecodingOnDemand ==
    exfs.state = "open" => OnlyRootRead

----------------------------------------------------------------------------
(***************************************************************************)
(* Properties of the exFAT geometry.                                       *)
(***************************************************************************)
\* C24: sector_to_cluster is the inverse of cluster_to_sector: every sector
\* of a cluster c >= 2 that cluster_to_sector gives a sector number maps
\* back to c.
C24_SectorToClusterInverts ==
    conv.op = "sector_to_cluster" => conv.kind = "ok" /\ conv.back = conv.cluster

----------------------------------------------------------------------------
(***************************************************************************)
(* The whole library: any of the volumes, and the calls made on it.        *)
(***************************************************************************)
Init == InitFat \/ InitDir \/ InitPath \/ InitExFat \/ InitBoot \/ InitCache \/ InitExOpen
        \/ InitDecode \/ InitConv

Next == NextFat \/ NextDir \/ NextPath \/ NextExFat \/ NextBoot \/ NextCache \/ NextExOpen
        \/ NextConv

Spec == Init /\ [][Next]_vars

====
